---- MODULE Spec2Model ----
(***************************************************************************)
(* Market-intelligence platform: persistent store (companies, products,   *)
(* data points, reports), the scraping dispatcher, the analytics queries   *)
(* the report builder reads, and the report life cycle.                    *)
(*                                                                         *)
(* Conventions.  An optional (nullable) value is a sequence of length at   *)
(* most one: None is <<>>, Some(x) is <<x>>.  Time is counted in whole     *)
(* days.  A host name is a sequence of one-character strings.  A Python    *)
(* value handed around by the scrapers is a tagged record (Num, Str, ...).  *)
(***************************************************************************)
EXTENDS Integers, Sequences, FiniteSets, TLC

VARIABLES
    now,             \* the current day
    companies,       \* company rows, by id
    products,        \* product rows, by id
    data_points,     \* the data point rows
    next_dp_id,      \* next id of the data_points table
    saves,           \* number of scrapes that saved rows so far
    reports,         \* report rows, by id
    next_report_id,  \* next id of the reports table
    tasks,           \* queued background generation runs (report ids)
    running,         \* reports a generation run is working on
    audit,           \* per report: content written at generation, last attempt
    last,            \* the last scrape, service call or regeneration and its result
    cache,           \* the Redis content cache of the scrapers, by key
    hashseed,        \* per worker process: the seed of its string hash, once started
    jobs,            \* the scrape_product task instances of the job layer, by id
    limiter,         \* the Redis counters of the rate limiter, by client address
    inflight         \* the requests inside RateLimiter.__call__, by request id

vars == <<now, companies, products, data_points, next_dp_id, saves, reports,
          next_report_id, tasks, running, audit, last,
          cache, hashseed, jobs, limiter, inflight>>

store_vars == <<companies, products, data_points, next_dp_id, saves>>
report_vars == <<reports, next_report_id, tasks, running, audit>>
side_vars == <<cache, hashseed, jobs, limiter, inflight>>

None == <<>>
Some(x) == <<x>>

(* Python truthiness of an optional number: None and 0 are falsy. *)
Truthy(opt) == opt # None /\ opt[1] # 0

----------------------------------------------------------------------------
(* Bounds of the model. *)

MaxSaves == 2
MaxReports == 2
MaxTicks == 2
MaxJumps == 1
MaxTasks == 1

(* Program constants. *)
RetentionDays == 90
DailyWindowDays == 1
WeeklyWindowDays == 7

----------------------------------------------------------------------------
(* Python values the scrapers hand to the dispatcher. *)

Num(n) == [t |-> "num", v |-> n]
Str(s) == [t |-> "str", s |-> s]
Bool(b) == [t |-> "bool", b |-> b]
PyNone == [t |-> "none"]
Dict(d) == [t |-> "dict", d |-> d]

(* isinstance(data, (int, float)): bool is a subclass of int. *)
IsNumber(data) == data.t \in {"num", "bool"}
NumberOf(data) == IF data.t = "num" THEN data.v ELSE IF data.b THEN 1 ELSE 0
(* str(data) for the non-numeric simple values. *)
PyStr(data) == IF data.t = "str" THEN data.s ELSE "None"
(* dict.get(key): None when the key is absent. *)
DictGet(data, key) == IF key \in DOMAIN data.d THEN data.d[key] ELSE PyNone
(* What a Float column stores for a Python value. *)
ToFloatColumn(data) == IF IsNumber(data) THEN Some(NumberOf(data)) ELSE None
(* What a Text column stores for a Python value. *)
ToTextColumn(data) == IF data.t = "str" THEN Some(data.s) ELSE None

IsoFormat(t) == "T" \o ToString(t)

----------------------------------------------------------------------------
(* Host names and the domain tables. *)

UpperChars == <<"A", "B", "C", "D", "E", "F", "G", "H", "I", "J", "K", "L", "M",
                "N", "O", "P", "Q", "R", "S", "T", "U", "V", "W", "X", "Y", "Z">>
LowerChars == <<"a", "b", "c", "d", "e", "f", "g", "h", "i", "j", "k", "l", "m",
                "n", "o", "p", "q", "r", "s", "t", "u", "v", "w", "x", "y", "z">>

UpperToLower ==
    [c \in {UpperChars[i] : i \in 1..Len(UpperChars)} |->
        LowerChars[CHOOSE i \in 1..Len(UpperChars) : UpperChars[i] = c]]

LowerChar(c) == IF c \in DOMAIN UpperToLower THEN UpperToLower[c] ELSE c

(* str.lower() *)
Lower(s) == [i \in 1..Len(s) |-> LowerChar(s[i])]

(* Python's  sub in s  on strings. *)
Contains(sub, s) ==
    \E i \in 0..(Len(s) - Len(sub)) : SubSeq(s, i + 1, i + Len(sub)) = sub

WwwPrefix == <<"w", "w", "w", ".">>

(* re.sub(r'^www\.', '', domain) *)
StripWww(domain) ==
    IF Len(domain) >= Len(WwwPrefix) /\ SubSeq(domain, 1, Len(WwwPrefix)) = WwwPrefix
    THEN SubSeq(domain, Len(WwwPrefix) + 1, Len(domain))
    ELSE domain

ecommerce_domains ==
    << <<"a", "m", "a", "z", "o", "n", ".", "c", "o", "m">>,
       <<"e", "b", "a", "y", ".", "c", "o", "m">>,
       <<"s", "h", "o", "p", "i", "f", "y", ".", "c", "o", "m">>,
       <<"w", "a", "l", "m", "a", "r", "t", ".", "c", "o", "m">>,
       <<"t", "a", "r", "g", "e", "t", ".", "c", "o", "m">>,
       <<"b", "e", "s", "t", "b", "u", "y", ".", "c", "o", "m">>,
       <<"a", "l", "i", "b", "a", "b", "a", ".", "c", "o", "m">> >>

social_domains ==
    << <<"t", "w", "i", "t", "t", "e", "r", ".", "c", "o", "m">>,
       <<"f", "a", "c", "e", "b", "o", "o", "k", ".", "c", "o", "m">>,
       <<"i", "n", "s", "t", "a", "g", "r", "a", "m", ".", "c", "o", "m">>,
       <<"l", "i", "n", "k", "e", "d", "i", "n", ".", "c", "o", "m">>,
       <<"t", "i", "k", "t", "o", "k", ".", "c", "o", "m">>,
       <<"y", "o", "u", "t", "u", "b", "e", ".", "c", "o", "m">> >>

news_domains ==
    << <<"c", "n", "n", ".", "c", "o", "m">>,
       <<"b", "b", "c", ".", "c", "o", "m">>,
       <<"r", "e", "u", "t", "e", "r", "s", ".", "c", "o", "m">>,
       <<"b", "l", "o", "o", "m", "b", "e", "r", "g", ".", "c", "o", "m">>,
       <<"t", "e", "c", "h", "c", "r", "u", "n", "c", "h", ".", "c", "o", "m">>,
       <<"n", "e", "w", "s", ".", "g", "o", "o", "g", "l", "e", ".", "c", "o", "m">> >>

(* EcommerceScraper.SUPPORTED_DOMAINS, in dictionary order: <<domain, platform>>. *)
SUPPORTED_DOMAINS ==
    << <<<<"a", "m", "a", "z", "o", "n", ".", "c", "o", "m">>, "amazon">>,
       <<<<"a", "m", "a", "z", "o", "n", ".", "c", "o", ".", "u", "k">>, "amazon">>,
       <<<<"a", "m", "a", "z", "o", "n", ".", "c", "a">>, "amazon">>,
       <<<<"e", "b", "a", "y", ".", "c", "o", "m">>, "ebay">>,
       <<<<"e", "b", "a", "y", ".", "c", "o", ".", "u", "k">>, "ebay">>,
       <<<<"s", "h", "o", "p", "i", "f", "y", ".", "c", "o", "m">>, "shopify">>,
       <<<<"b", "i", "g", "c", "o", "m", "m", "e", "r", "c", "e", ".", "c", "o", "m">>, "bigcommerce">> >>

(* any(d in domain for d in table) *)
AnyIn(table, domain) == \E i \in 1..Len(table) : Contains(table[i], domain)

(* A product URL is modelled by its network location (urlparse(url).netloc);
   the empty sequence is the empty string. *)
Netloc(url) == url

(* ScraperService._determine_scraper_type *)
determine_scraper_type(product) ==
    IF product.tracking_config # None /\ product.tracking_config[1].scraper_type # None
    THEN product.tracking_config[1].scraper_type[1]
    ELSE IF product.url = None \/ product.url[1] = <<>>
    THEN "ecommerce"
    ELSE LET domain == Lower(Netloc(product.url[1]))
         IN  IF AnyIn(ecommerce_domains, domain) THEN "ecommerce"
             ELSE IF AnyIn(social_domains, domain) THEN "social"
             ELSE IF AnyIn(news_domains, domain) THEN "news"
             ELSE "ecommerce"

(* EcommerceScraper.validate_url *)
validate_url(url) ==
    LET domain == StripWww(Lower(Netloc(url)))
    IN  \E i \in 1..Len(SUPPORTED_DOMAINS) : Contains(SUPPORTED_DOMAINS[i][1], domain)

(* EcommerceScraper._detect_platform: the first table entry found in the host. *)
detect_platform(url) ==
    LET domain == StripWww(Lower(Netloc(url)))
        hits == {i \in 1..Len(SUPPORTED_DOMAINS) : Contains(SUPPORTED_DOMAINS[i][1], domain)}
    IN  IF hits = {} THEN None
        ELSE Some(SUPPORTED_DOMAINS[CHOOSE i \in hits : \A j \in hits : i <= j][2])

(* ScraperService.scrapers: the registered families. *)
RegisteredFamilies == {"ecommerce", "social", "news"}

(* URL check of the social and news families, whose extractor entry point is
   not part of the sources: the family claims the hosts of its platforms. *)
family_validate_url(family, url) ==
    IF family = "ecommerce" THEN validate_url(url)
    ELSE IF family = "social" THEN AnyIn(social_domains, Lower(Netloc(url)))
    ELSE AnyIn(news_domains, Lower(Netloc(url)))

----------------------------------------------------------------------------
(* Extractors.  A fetched page is abstracted to what the selectors find on
   it; the outcome of a fetch is None (BaseScraper.fetch_page failed) or
   Some(page). *)

(* The pages: one with title, price and mention, one on which no selector
   finds anything. *)
ShopPage == [title |-> Some("Widget"), price_text |-> Some("$100"), mention |-> Some("great")]
EmptyPage == [title |-> None, price_text |-> None, mention |-> None]

Pages == {ShopPage, EmptyPage}

FetchOutcomes == {None} \cup {Some(p) : p \in Pages}

(* The price texts a page may show, with the number each one holds. *)
PriceTable ==
    [text \in {"$0", "$94", "$95", "$100", "$105", "$106"} |->
        CASE text = "$0" -> 0
          [] text = "$94" -> 94
          [] text = "$95" -> 95
          [] text = "$100" -> 100
          [] text = "$105" -> 105
          [] text = "$106" -> 106]

(* A shop page showing the given price text. *)
PricePage(text) == [title |-> Some("Widget"), price_text |-> Some(text), mention |-> None]

(* BaseScraper.extract_number on the price texts of the pages. *)
extract_number(text) ==
    IF text \in DOMAIN PriceTable THEN Some(PriceTable[text]) ELSE None

OptNum(opt) == IF opt = None THEN PyNone ELSE Num(opt[1])
OptStr(opt) == IF opt = None THEN PyNone ELSE Str(opt[1])

(* EcommerceScraper._scrape_generic: the result dictionary in insertion
   order, as a sequence of <<key, value>>. *)
scrape_generic(page, t) ==
    LET price == IF page.price_text # None /\ page.price_text[1] # ""
                 THEN extract_number(page.price_text[1]) ELSE None
    IN  << <<"platform", Str("generic")>>,
           <<"scraped_at", Str(IsoFormat(t))>>,
           <<"success", Bool(TRUE)>>,
           <<"title", OptStr(page.title)>>,
           <<"price", OptNum(price)>>,
           <<"price_text", OptStr(page.price_text)>> >>

(* Outcome of an extractor call: raised (an exception left the extractor),
   data (the dictionary returned otherwise), fetched (fetch_page was called). *)
Raised(fetched) == [raised |-> TRUE, data |-> <<>>, fetched |-> fetched]
Returned(data, fetched) == [raised |-> FALSE, data |-> data, fetched |-> fetched]

(* scrape_product without the validate_url guard: any URL is fetched. *)
ecommerce_scrape_product_unguarded(url, fetch, t) ==
    IF fetch = None
    THEN Returned(<< <<"error", Str("Failed to fetch page content")>> >>, TRUE)
    ELSE Returned(scrape_generic(fetch[1], t), TRUE)

(* EcommerceScraper.scrape_product.  The hosts of the catalogue resolve to
   the generic platform only; _scrape_amazon and _scrape_ebay are not
   modelled.  The only exception raised is the refusal of the URL. *)
ecommerce_scrape_product(url, fetch, t) ==
    IF ~validate_url(url) THEN Raised(FALSE)
    ELSE IF fetch = None
    THEN Returned(<< <<"error", Str("Failed to fetch page content")>> >>, TRUE)
    ELSE Returned(scrape_generic(fetch[1], t), TRUE)

(* Entry point of the social and news families (not part of the sources):
   refuses a URL the family does not claim, fetches, and returns one nested
   sentiment fragment per scrape, or nothing when the fetch fails or the page
   holds no mention. *)
family_scrape_product(family, url, fetch, t) ==
    IF ~family_validate_url(family, url) THEN Raised(FALSE)
    ELSE IF fetch = None \/ fetch[1].mention = None THEN Returned(<<>>, TRUE)
    ELSE Returned(<< <<"sentiment",
                       Dict([value |-> Num(1), text_value |-> Str(fetch[1].mention[1])])>> >>,
                  TRUE)

(* scraper.scrape(product.url, product.tracking_config or {}) of the
   dispatcher: the extractor entry point of the family. *)
scrape(family, url, fetch, t) ==
    IF family = "ecommerce" THEN ecommerce_scrape_product(url, fetch, t)
    ELSE family_scrape_product(family, url, fetch, t)

----------------------------------------------------------------------------
(* Dispatcher (ScraperService). *)

(* One DataPoint row built by _save_scraped_data from one dictionary item. *)
make_data_point(id, product_id, item, source, t) ==
    LET metric_type == item[1]
        data == item[2]
    IN  IF data.t = "dict"
        THEN [id |-> id, product_id |-> product_id, metric_type |-> metric_type,
              value |-> ToFloatColumn(DictGet(data, "value")),
              text_value |-> ToTextColumn(DictGet(data, "text_value")),
              source |-> source, collected_at |-> t, created_at |-> t]
        ELSE [id |-> id, product_id |-> product_id, metric_type |-> metric_type,
              value |-> IF IsNumber(data) THEN Some(NumberOf(data)) ELSE None,
              text_value |-> IF ~IsNumber(data) THEN Some(PyStr(data)) ELSE None,
              source |-> source, collected_at |-> t, created_at |-> t]

(* The save leaving out the items whose value is None. *)
save_scraped_data_skipping_none(product_id, scraped_data, source, first_id, t) ==
    { make_data_point(first_id + i - 1, product_id, scraped_data[i], source, t) :
        i \in {j \in 1..Len(scraped_data) : scraped_data[j][2] # PyNone} }

(* ScraperService._save_scraped_data: the rows added, one per item, all
   stamped with the same current time; ids are handed out from first_id. *)
save_scraped_data(product_id, scraped_data, source, first_id, t) ==
    { make_data_point(first_id + i - 1, product_id, scraped_data[i], source, t) :
        i \in 1..Len(scraped_data) }

ErrorResult(error, scraper_type, fetched, extractor) ==
    [success |-> FALSE, error |-> error, data_points_saved |-> 0,
     scraper_type |-> scraper_type, new |-> {}, fragments |-> <<>>,
     fetched |-> fetched, extractor |-> extractor]

(* The product query without its is_active filter. *)
active_filter_dropped(product) == TRUE

(* The is_active filter of the product query in scrape_product_data. *)
active_filter(product) == product.is_active

(* ScraperService.scrape_product_data on the store (prods, first free data
   point id) with the fetch outcome the network gives.  The result carries
   the returned dictionary (success, error, data_points_saved, scraper_type),
   the rows added to the store (new) and whether the extractor and the
   fetcher were invoked. *)
scrape_product_data(prods, product_id, fetch, first_id, t) ==
    IF product_id \notin DOMAIN prods \/ ~active_filter(prods[product_id])
    THEN ErrorResult("Product not found or inactive", "", FALSE, FALSE)
    ELSE LET product == prods[product_id]
             scraper_type == determine_scraper_type(product)
         IN  IF product.url = None \/ product.url[1] = <<>>
             THEN ErrorResult("Product URL not configured", "", FALSE, FALSE)
             ELSE IF scraper_type \notin RegisteredFamilies
             THEN ErrorResult("No scraper available for type", scraper_type, FALSE, FALSE)
             ELSE LET out == scrape(scraper_type, product.url[1], fetch, t)
                  IN  IF out.raised
                      THEN ErrorResult("Scraping failed: Unsupported URL", scraper_type, out.fetched, TRUE)
                      ELSE IF out.data = <<>>
                      THEN ErrorResult("No data scraped", scraper_type, out.fetched, TRUE)
                      ELSE LET saved == save_scraped_data(product.id, out.data,
                                                          scraper_type, first_id, t)
                           IN  [success |-> TRUE, error |-> "",
                                data_points_saved |-> Cardinality(saved),
                                scraper_type |-> scraper_type, new |-> saved,
                                fragments |-> out.data,
                                fetched |-> out.fetched, extractor |-> TRUE]

(* The loop giving up at the first product whose scrape fails. *)
RECURSIVE scrape_each_aborting(_, _, _, _, _)
scrape_each_aborting(prods, todo, fetches, first_id, t) ==
    IF todo = <<>> THEN <<>>
    ELSE LET r == scrape_product_data(prods, Head(todo), fetches[Head(todo)], first_id, t)
         IN  IF ~r.success THEN <<[product_id |-> Head(todo), result |-> r]>>
             ELSE <<[product_id |-> Head(todo), result |-> r]>>
                  \o scrape_each_aborting(prods, Tail(todo), fetches,
                                          first_id + r.data_points_saved, t)

(* The loop of scrape_all_active_products over the products still to do:
   one result entry per product, each scrape seeing the rows (ids) the
   previous ones added. *)
RECURSIVE scrape_each(_, _, _, _, _)
scrape_each(prods, todo, fetches, first_id, t) ==
    IF todo = <<>> THEN <<>>
    ELSE LET r == scrape_product_data(prods, Head(todo), fetches[Head(todo)], first_id, t)
         IN  <<[product_id |-> Head(todo), result |-> r]>>
             \o scrape_each(prods, Tail(todo), fetches, first_id + r.data_points_saved, t)

(* Ascending sequence of a finite set of integers (the order of a query). *)
RECURSIVE SortedSeq(_)
SortedSeq(S) ==
    IF S = {} THEN <<>>
    ELSE LET m == CHOOSE x \in S : \A y \in S : x <= y
         IN  <<m>> \o SortedSeq(S \ {m})

(* The product query of scrape_all_active_products:
   is_active == True and url IS NOT NULL. *)
active_products(prods) ==
    SortedSeq({p \in DOMAIN prods : prods[p].is_active /\ prods[p].url # None})

(* ScraperService.scrape_all_active_products *)
scrape_all_active_products(prods, fetches, first_id, t) ==
    LET todo == active_products(prods)
        results == scrape_each(prods, todo, fetches, first_id, t)
        successful == Cardinality({i \in 1..Len(results) : results[i].result.success})
    IN  [total_products |-> Len(todo),
         successful_scrapes |-> successful,
         failed_scrapes |-> Len(todo) - successful,
         results |-> results]

----------------------------------------------------------------------------
(* The store after construction. *)

ShopHost == <<"w", "w", "w", ".", "s", "h", "o", "p", "i", "f", "y", ".", "c", "o", "m">>
WalmartHost == <<"w", "a", "l", "m", "a", "r", "t", ".", "c", "o", "m">>
TwitterHost == <<"t", "w", "i", "t", "t", "e", "r", ".", "c", "o", "m">>
OtherHost == <<"e", "x", "a", "m", "p", "l", "e", ".", "o", "r", "g">>
(* A host that holds a table domain without ending in it. *)
EmbeddedHost == <<"c", "n", "n", ".", "c", "o", "m", ".", "x", ".", "i", "o">>

UrlChoices == {None, Some(<<>>), Some(ShopHost), Some(WalmartHost),
               Some(TwitterHost), Some(OtherHost), Some(EmbeddedHost)}

ConfigChoices ==
    {None} \cup {Some([scraper_type |-> st]) :
                    st \in {None, Some("ecommerce"), Some("social"), Some("custom")}}

CompanyIds == {1, 2, 3}
ProductIds == {1, 2}
(* Ids a caller may pass, among them ids of no row. *)
AnyProductId == ProductIds \cup {3}

(* Company rows: company 2 competes against company 1; company 3 either
   competes against company 1 too or against nobody. *)
CompanyTables ==
    { [c \in CompanyIds |->
         [id |-> c, competitor_to |-> IF c = 2 THEN Some(1) ELSE IF c = 3 THEN third ELSE None]] :
      third \in {None, Some(1)} }

(* Product rows: product 1 (of company 1) with any URL and tracking
   configuration, product 2 (of company 2) on a shop or a social host. *)
ProductTables ==
    { [p \in ProductIds |->
         IF p = 1
         THEN [id |-> 1, company_id |-> 1, url |-> u1, tracking_config |-> c1, is_active |-> TRUE]
         ELSE [id |-> 2, company_id |-> 2, url |-> u2, tracking_config |-> None, is_active |-> TRUE]] :
      u1 \in UrlChoices, c1 \in ConfigChoices, u2 \in {Some(ShopHost), Some(TwitterHost)} }

----------------------------------------------------------------------------
(* Analytics Engine (AnalyticsService), as far as the report builder reads
   it.  A mean is kept exact, as the pair of the sum and the count. *)

(* Rows are ordered by collection time; rows of one collection time keep
   their insertion order. *)
Before(a, b) ==
    a.collected_at < b.collected_at \/ (a.collected_at = b.collected_at /\ a.id < b.id)

RECURSIVE OrderByCollectedAt(_)
OrderByCollectedAt(rows) ==
    IF rows = {} THEN <<>>
    ELSE LET first == CHOOSE r \in rows : \A o \in rows : o = r \/ Before(r, o)
         IN  <<first>> \o OrderByCollectedAt(rows \ {first})

RECURSIVE SumSeq(_)
SumSeq(s) == IF s = <<>> THEN 0 ELSE Head(s) + SumSeq(Tail(s))

Mean(s) == [sum |-> SumSeq(s), n |-> Len(s)]

SeqMin(s) == CHOOSE x \in {s[i] : i \in 1..Len(s)} : \A j \in 1..Len(s) : x <= s[j]
SeqMax(s) == CHOOSE x \in {s[i] : i \in 1..Len(s)} : \A j \in 1..Len(s) : x >= s[j]

RECURSIVE SelectValues(_, _)
(* [dp.value for dp in rows if keep(dp.value)], keep given as a set of kept options *)
SelectValues(rows, truthy_only) ==
    IF rows = <<>> THEN <<>>
    ELSE LET v == Head(rows).value
             rest == SelectValues(Tail(rows), truthy_only)
         IN  IF (truthy_only /\ Truthy(v)) \/ (~truthy_only /\ v # None)
             THEN <<v[1]>> \o rest ELSE rest

(* The change above which a price counts as increasing, below whose
   negative as decreasing, in percent. *)
TrendThreshold == 5

(* The number of rows price_history keeps. *)
HistoryLength == 10

(* The first n elements of a sequence: s[:n]. *)
FirstN(s, n) == IF Len(s) <= n THEN s ELSE SubSeq(s, 1, n)

(* The last n elements of a sequence: s[-n:]. *)
LastN(s, n) == IF Len(s) <= n THEN s ELSE SubSeq(s, Len(s) - n + 1, Len(s))

(* ((current_price - prices[0]) / prices[0]) * 100, kept exact as the
   fraction num / den; the prices of the model are whole and positive here,
   for which the floating-point value compares with the threshold as the
   fraction does. *)
price_change(prices) ==
    IF Len(prices) >= 2
    THEN [num |-> (prices[Len(prices)] - prices[1]) * 100, den |-> prices[1]]
    ELSE [num |-> 0, den |-> 1]

(* The label with a lone price measured against zero. *)
trend_of_from_zero(prices) ==
    IF Len(prices) >= 2
    THEN LET change == price_change(prices)
         IN  IF change.num > TrendThreshold * change.den THEN "increasing"
             ELSE IF change.num < (0 - TrendThreshold) * change.den THEN "decreasing"
             ELSE "stable"
    ELSE IF prices # <<>> /\ prices[1] > 0 THEN "increasing" ELSE "stable"

(* The trend label of get_price_trends. *)
trend_of(prices) ==
    IF Len(prices) >= 2
    THEN LET change == price_change(prices)
         IN  IF change.num > TrendThreshold * change.den THEN "increasing"
             ELSE IF change.num < (0 - TrendThreshold) * change.den THEN "decreasing"
             ELSE "stable"
    ELSE "stable"

(* AnalyticsService.get_price_trends: the error record when the window
   [t - days, t] holds no price row, else the result record. *)
get_price_trends(dps, product_id, days, t) ==
    LET price_data == OrderByCollectedAt(
            {dp \in dps : /\ dp.product_id = product_id
                          /\ dp.metric_type = "price"
                          /\ dp.collected_at >= t - days
                          /\ dp.collected_at <= t})
        prices == SelectValues(price_data, TRUE)
    IN  IF price_data = <<>>
        THEN [error |-> TRUE]
        ELSE [error |-> FALSE,
              product_id |-> product_id,
              period_days |-> days,
              current_price |-> IF prices # <<>> THEN prices[Len(prices)] ELSE 0,
              average_price |-> IF prices # <<>> THEN Mean(prices) ELSE Mean(<<0>>),
              min_price |-> IF prices # <<>> THEN SeqMin(prices) ELSE 0,
              max_price |-> IF prices # <<>> THEN SeqMax(prices) ELSE 0,
              price_change_percent |-> price_change(prices),
              trend |-> trend_of(prices),
              data_points |-> Len(price_data),
              price_history |->
                  [i \in 1..Len(LastN(price_data, HistoryLength)) |->
                      [date |-> IsoFormat(LastN(price_data, HistoryLength)[i].collected_at),
                       price |-> LastN(price_data, HistoryLength)[i].value,
                       source |-> LastN(price_data, HistoryLength)[i].source]]]

(* AnalyticsService.sentiment_analysis: error record, result record, or an
   exception (raised) when a source of the window has rows but no score. *)
sentiment_analysis(dps, product_id, days, t) ==
    LET sentiment_data == OrderByCollectedAt(
            {dp \in dps : /\ dp.product_id = product_id
                          /\ dp.metric_type = "sentiment"
                          /\ dp.collected_at >= t - days})
        sentiments == SelectValues(sentiment_data, FALSE)
        sources == {sentiment_data[i].source : i \in 1..Len(sentiment_data)}
        scored(src) == \E i \in 1..Len(sentiment_data) :
                          sentiment_data[i].source = src /\ sentiment_data[i].value # None
    IN  IF sentiment_data = <<>> \/ sentiments = <<>>
        THEN [error |-> TRUE, raised |-> FALSE]
        ELSE IF \E src \in sources : ~scored(src)
        THEN [error |-> FALSE, raised |-> TRUE]
        ELSE [error |-> FALSE, raised |-> FALSE,
              product_id |-> product_id,
              period_days |-> days,
              average_sentiment |-> Mean(sentiments),
              total_mentions |-> Len(sentiment_data)]

(* The most recent price row of a product, if any. *)
latest_price(dps, product_id) ==
    LET rows == {dp \in dps : dp.product_id = product_id /\ dp.metric_type = "price"}
    IN  IF rows = {} THEN None
        ELSE Some(CHOOSE r \in rows : \A o \in rows : o = r \/ Before(o, r))

(* The competitors query without its competitor_to filter: every other
   company. *)
competitors_of_unfiltered(comps, company_id) ==
    {c \in DOMAIN comps : c # company_id}

(* The competitors query of competitor_analysis. *)
competitors_of(comps, company_id) ==
    {c \in DOMAIN comps : comps[c].competitor_to = Some(company_id)}

(* The entry competitor_analysis builds for one competitor. *)
competitor_data(prods, dps, competitor) ==
    LET competitor_products == {p \in DOMAIN prods : prods[p].company_id = competitor}
        priced == {p \in competitor_products :
                      /\ latest_price(dps, p) # None
                      /\ Truthy(latest_price(dps, p)[1].value)}
        recent_prices == [i \in 1..Cardinality(priced) |->
                             latest_price(dps, SortedSeq(priced)[i])[1].value[1]]
        avg_price == IF recent_prices # <<>> THEN Mean(recent_prices) ELSE Mean(<<0>>)
    IN  [id |-> competitor,
         product_count |-> Cardinality(competitor_products),
         average_price |-> IF avg_price.sum # 0 THEN Some(avg_price) ELSE None,
         recent_activity |-> Len(recent_prices)]

(* AnalyticsService.competitor_analysis: an error record, a result record, or
   an exception (raised): statistics.mean of an empty list, when no competitor
   has a positive average price. *)
competitor_analysis(comps, prods, dps, company_id) ==
    IF company_id \notin DOMAIN comps
    THEN [error |-> TRUE, raised |-> FALSE, reason |-> "Company not found"]
    ELSE IF competitors_of(comps, company_id) = {}
    THEN [error |-> TRUE, raised |-> FALSE, reason |-> "No competitors found for this company"]
    ELSE LET ids == SortedSeq(competitors_of(comps, company_id))
             entries == [i \in 1..Len(ids) |-> competitor_data(prods, dps, ids[i])]
             priced == {i \in 1..Len(entries) :
                           entries[i].average_price # None
                           /\ entries[i].average_price[1].sum > 0}
         IN  IF priced = {}
             THEN [error |-> FALSE, raised |-> TRUE, reason |-> "StatisticsError"]
             ELSE [error |-> FALSE, raised |-> FALSE, reason |-> "",
                   company |-> company_id,
                   competitors |-> entries,
                   total_competitors |-> Len(ids),
                   avg_competitor_price_of |->
                       [i \in 1..Cardinality(priced) |->
                           entries[SortedSeq(priced)[i]].average_price[1]]]

(* Windows and row limit of product_performance_summary. *)
SummaryPriceDays == 30
SummarySentimentDays == 7
RecentActivityLimit == 10

(* The rows of a set, newest first. *)
RECURSIVE OrderByCollectedAtDesc(_)
OrderByCollectedAtDesc(rows) ==
    IF rows = {} THEN <<>>
    ELSE LET first == CHOOSE r \in rows : \A o \in rows : o = r \/ Before(o, r)
         IN  <<first>> \o OrderByCollectedAtDesc(rows \ {first})

(* AnalyticsService.product_performance_summary: the error record for an
   unknown product, else the record of both analyses and the latest rows; an
   exception of sentiment_analysis passes through. *)
product_performance_summary(prods, dps, product_id, t) ==
    IF product_id \notin DOMAIN prods
    THEN [error |-> TRUE, raised |-> FALSE]
    ELSE LET price_trends == get_price_trends(dps, product_id, SummaryPriceDays, t)
             sentiment == sentiment_analysis(dps, product_id, SummarySentimentDays, t)
             recent == OrderByCollectedAtDesc({dp \in dps : dp.product_id = product_id})
             shown == IF Len(recent) <= RecentActivityLimit THEN recent
                      ELSE SubSeq(recent, 1, RecentActivityLimit)
         IN  IF sentiment.raised
             THEN [error |-> FALSE, raised |-> TRUE]
             ELSE [error |-> FALSE, raised |-> FALSE,
                   product |-> product_id,
                   price_analysis |-> price_trends,
                   sentiment_analysis |-> sentiment,
                   recent_activity |->
                       [i \in 1..Len(shown) |->
                           [date |-> IsoFormat(shown[i].collected_at),
                            metric_type |-> shown[i].metric_type,
                            value |-> shown[i].value,
                            source |-> shown[i].source]]]

----------------------------------------------------------------------------
(* Report Builder (ReportService).  A report row is
   [id, title, report_type, client_id, content, status, generated_at]. *)

ReportStatuses == {"pending", "processing", "completed", "failed"}
ReportTypes == {"daily", "weekly", "competitor"}

active_products_of(prods, company_id) ==
    SortedSeq({p \in DOMAIN prods : prods[p].company_id = company_id /\ prods[p].is_active})

(* The per-product entries of a daily or weekly report: the analytics of the
   product over the window, None in place of an error record. *)
product_analytics(prods, dps, company_id, days, t) ==
    LET ps == active_products_of(prods, company_id)
    IN  [i \in 1..Len(ps) |->
           LET price_trends == get_price_trends(dps, ps[i], days, t)
               sentiment == sentiment_analysis(dps, ps[i], days, t)
           IN  [product_id |-> ps[i],
                price_analysis |-> IF price_trends.error THEN None ELSE Some(price_trends),
                sentiment_analysis |-> IF sentiment.error THEN None ELSE Some(sentiment)]]

(* An analytics call of the loop raised. *)
product_analytics_raised(prods, dps, company_id, days, t) ==
    \E p \in DOMAIN prods :
        /\ prods[p].company_id = company_id /\ prods[p].is_active
        /\ sentiment_analysis(dps, p, days, t).raised

(* report_content of generate_daily_report (the summary is kept to its
   total_data_points entry). *)
daily_content(prods, dps, company_id, t) ==
    LET pa == product_analytics(prods, dps, company_id, DailyWindowDays, t)
    IN  [company |-> company_id,
         report_date |-> t - 1,
         products_analyzed |-> Len(pa),
         product_analytics |-> pa,
         total_data_points |->
             Cardinality({i \in 1..Len(pa) : pa[i].price_analysis # None
                                             /\ pa[i].price_analysis[1].data_points > 0}),
         generated_at |-> IsoFormat(t)]

(* report_content of generate_weekly_report (insights and key metrics are
   kept to the count of products with price data). *)
weekly_content(prods, dps, company_id, t) ==
    LET pa == product_analytics(prods, dps, company_id, WeeklyWindowDays, t)
    IN  [company |-> company_id,
         week_ending |-> t,
         products_analyzed |-> Len(pa),
         weekly_analytics |-> pa,
         products_with_price_data |->
             Cardinality({i \in 1..Len(pa) : pa[i].price_analysis # None}),
         generated_at |-> IsoFormat(t)]

(* report_content of generate_competitor_report. *)
competitor_content(analysis, t) ==
    [analysis |-> analysis,
     monitoring |-> Len(analysis.competitors),
     generated_at |-> IsoFormat(t)]

(* Report(...) built without generated_at. *)
completed_report_untimed(id, title, report_type, company_id, content, t) ==
    [id |-> id, title |-> title, report_type |-> report_type,
     client_id |-> Some(company_id), content |-> Some(content),
     status |-> "completed", generated_at |-> None]

(* Report(...) as the service builds it: completed, with content and
   generation time. *)
completed_report(id, title, report_type, company_id, content, t) ==
    [id |-> id, title |-> title, report_type |-> report_type,
     client_id |-> Some(company_id), content |-> Some(content),
     status |-> "completed", generated_at |-> Some(t)]

(* Outcome of a service call: raised, or the id returned and the row added
   (None when the call added no row). *)
ServiceRaised == [raised |-> TRUE, ret |-> 0, added |-> None]
ServiceReturned(id, added) == [raised |-> FALSE, ret |-> id, added |-> added]

(* The existing-report query of generate_daily_report: a daily report of the
   company whose generation time lies in yesterday. *)
existing_daily_report(reps, company_id, t) ==
    LET yesterday == t - 1
    IN  {r \in DOMAIN reps : /\ reps[r].client_id = Some(company_id)
                             /\ reps[r].report_type = "daily"
                             /\ reps[r].generated_at # None
                             /\ reps[r].generated_at[1] >= yesterday
                             /\ reps[r].generated_at[1] < yesterday + 1}

(* .first() of a query: the row of least id. *)
First(ids) == CHOOSE r \in ids : \A o \in ids : r <= o

(* ReportService.generate_daily_report *)
generate_daily_report(comps, prods, dps, reps, company_id, new_id, t) ==
    IF company_id \notin DOMAIN comps THEN ServiceRaised
    ELSE IF existing_daily_report(reps, company_id, t) # {}
    THEN ServiceReturned(First(existing_daily_report(reps, company_id, t)), None)
    ELSE IF product_analytics_raised(prods, dps, company_id, DailyWindowDays, t)
    THEN ServiceRaised
    ELSE ServiceReturned(new_id,
            Some(completed_report(new_id, "Daily Report", "daily", company_id,
                                  daily_content(prods, dps, company_id, t), t)))

(* ReportService.generate_weekly_report *)
generate_weekly_report(comps, prods, dps, reps, company_id, new_id, t) ==
    IF company_id \notin DOMAIN comps THEN ServiceRaised
    ELSE IF product_analytics_raised(prods, dps, company_id, WeeklyWindowDays, t)
    THEN ServiceRaised
    ELSE ServiceReturned(new_id,
            Some(completed_report(new_id, "Weekly Report", "weekly", company_id,
                                  weekly_content(prods, dps, company_id, t), t)))

(* ReportService.generate_competitor_report *)
generate_competitor_report(comps, prods, dps, reps, company_id, new_id, t) ==
    IF company_id \notin DOMAIN comps THEN ServiceRaised
    ELSE LET analysis == competitor_analysis(comps, prods, dps, company_id)
         IN  IF analysis.raised \/ analysis.error THEN ServiceRaised
             ELSE ServiceReturned(new_id,
                     Some(completed_report(new_id, "Competitor Analysis", "competitor",
                                           company_id, competitor_content(analysis, t), t)))

----------------------------------------------------------------------------
(* Reports API (routers/reports.py) and the background generation run. *)

(* Report(...) of create_report and of the generate endpoint: status pending,
   neither content nor generation time. *)
pending_report(id, title, report_type, client_id) ==
    [id |-> id, title |-> title, report_type |-> report_type,
     client_id |-> client_id, content |-> None,
     status |-> "pending", generated_at |-> None]

(* current_user.get("id") of the development user. *)
CurrentUserId == 1

(* The fields a ReportUpdate payload may carry (the schema is not part of the
   sources): descriptive fields only, here the title. *)
ReportUpdateChoices == {[title |-> "Renamed"]}

(* update_report: setattr(report, field, value) for every field sent. *)
update_report(report, update_data) ==
    [f \in DOMAIN report |-> IF f \in DOMAIN update_data THEN update_data[f] ELSE report[f]]

(* The reset of the row that keeps the old content. *)
regenerate_report_keeping_content(report) ==
    [report EXCEPT !.status = "pending", !.generated_at = None]

(* regenerate_report: the reset of the row. *)
regenerate_report(report) ==
    [report EXCEPT !.status = "pending", !.generated_at = None, !.content = None]

(* The content a generation run builds for a row, None when the attempt
   fails: the company is unknown or the analytics of the kind fail.  The run
   (ReportService.generate_report) is not part of the sources; it is modelled
   on the report state machine, with the content of the kind's builder. *)
generation_content(comps, prods, dps, report, t) ==
    IF report.client_id = None \/ report.client_id[1] \notin DOMAIN comps THEN None
    ELSE LET c == report.client_id[1]
         IN  IF report.report_type = "competitor"
             THEN LET analysis == competitor_analysis(comps, prods, dps, c)
                  IN  IF analysis.raised \/ analysis.error THEN None
                      ELSE Some(competitor_content(analysis, t))
             ELSE IF report.report_type = "weekly"
             THEN IF product_analytics_raised(prods, dps, c, WeeklyWindowDays, t) THEN None
                  ELSE Some(weekly_content(prods, dps, c, t))
             ELSE IF product_analytics_raised(prods, dps, c, DailyWindowDays, t) THEN None
                  ELSE Some(daily_content(prods, dps, c, t))

(* End of a generation run on a row in processing: completed with content and
   generation time, or failed with neither. *)
finish_generation(report, content, t) ==
    IF content = None
    THEN [report EXCEPT !.status = "failed", !.content = None, !.generated_at = None]
    ELSE [report EXCEPT !.status = "completed", !.content = content, !.generated_at = Some(t)]

(* get_report rendering a daily report again from the store as it is now. *)
report_detail_live(prods, dps, report, t) ==
    IF report.report_type = "daily" /\ report.client_id # None /\ report.generated_at # None
    THEN Some(daily_content(prods, dps, report.client_id[1], report.generated_at[1]))
    ELSE report.content

(* get_report: the content served for a report is the stored one. *)
report_detail(prods, dps, report, t) == report.content

(* The purge without its cutoff: every row is deleted. *)
cleanup_old_data_uncut(dps, t) == {}

(* cleanup_old_data: the rows that stay, those created within the retention. *)
cleanup_old_data(dps, t) == {dp \in dps : ~(dp.created_at < t - RetentionDays)}

(* The queue of generation runs is a bag of report ids: runs are picked up in
   any order. *)
Queued(q, id) == IF id \in DOMAIN q THEN q[id] ELSE 0

QueueLen(q) == SumSeq([i \in 1..Len(SortedSeq(DOMAIN q)) |-> q[SortedSeq(DOMAIN q)[i]]])

Enqueue(q, id) ==
    [i \in (DOMAIN q) \cup {id} |-> IF i = id THEN Queued(q, id) + 1 ELSE q[i]]

Dequeue(q, id) ==
    [i \in {j \in DOMAIN q : j # id \/ q[j] > 1} |-> IF i = id THEN q[i] - 1 ELSE q[i]]

----------------------------------------------------------------------------
(* Initial state and the operations. *)

Init ==
    /\ now = 0
    /\ companies \in CompanyTables
    /\ products \in ProductTables
    /\ data_points = {}
    /\ next_dp_id = 1
    /\ saves = 0
    /\ reports = <<>>
    /\ next_report_id = 1
    /\ tasks = <<>>
    /\ running = {}
    /\ audit = <<>>
    /\ last = [op |-> "init"]
    /\ cache = <<>>
    /\ hashseed = <<>>
    /\ jobs = <<>>
    /\ limiter = <<>>
    /\ inflight = <<>>

(* A day passes. *)
Tick ==
    /\ now % RetentionDays < MaxTicks
    /\ now' = now + 1
    /\ UNCHANGED <<side_vars, store_vars, report_vars, last>>

(* A retention period passes. *)
Jump ==
    /\ now \div RetentionDays < MaxJumps
    /\ now' = now + RetentionDays
    /\ UNCHANGED <<side_vars, store_vars, report_vars, last>>

(* Admin action: a product is activated or deactivated. *)
SetActive(p, b) ==
    /\ products[p].is_active # b
    /\ products' = [products EXCEPT ![p].is_active = b]
    /\ UNCHANGED <<side_vars, now, companies, data_points, next_dp_id, saves, report_vars, last>>

(* What a caller can observe of the product before a scrape. *)
ProductState(p) ==
    IF p \notin DOMAIN products THEN [exists |-> FALSE]
    ELSE [exists |-> TRUE, is_active |-> products[p].is_active,
          url |-> products[p].url, tracking_config |-> products[p].tracking_config]

(* scrape_product_data(product_id), the fetch (if any) ending as given. *)
ScrapeProduct(p, fetch) ==
    \E r \in {scrape_product_data(products, p, fetch, next_dp_id, now)} :
        /\ r.success => saves < MaxSaves
        /\ data_points' = data_points \cup r.new
        /\ next_dp_id' = next_dp_id + r.data_points_saved
        /\ saves' = IF r.success THEN saves + 1 ELSE saves
        /\ last' = [op |-> "scrape_product_data", product_id |-> p,
                    before |-> ProductState(p),
                    success |-> r.success, error |-> r.error,
                    scraper_type |-> r.scraper_type,
                    data_points_saved |-> r.data_points_saved,
                    fetched |-> r.fetched, extractor |-> r.extractor,
                    fragments |-> r.fragments, at |-> now,
                    new |-> data_points' \ data_points,
                    added |-> Cardinality(data_points' \ data_points),
                    removed |-> Cardinality(data_points \ data_points')]
        /\ UNCHANGED <<side_vars, now, companies, products, report_vars>>

(* scrape_all_active_products(), the fetch for each product ending as given. *)
ScrapeAll(fetches) ==
    \E r \in {scrape_all_active_products(products, fetches, next_dp_id, now)} :
    \E new \in {UNION {r.results[i].result.new : i \in 1..Len(r.results)}} :
        /\ saves + r.successful_scrapes <= MaxSaves
        /\ data_points' = data_points \cup new
        /\ next_dp_id' = next_dp_id + Cardinality(new)
        /\ saves' = saves + r.successful_scrapes
        /\ last' = [op |-> "scrape_all_active_products",
                    expected |-> {p \in DOMAIN products :
                                     products[p].is_active /\ products[p].url # None},
                    total_products |-> r.total_products,
                    successful_scrapes |-> r.successful_scrapes,
                    failed_scrapes |-> r.failed_scrapes,
                    results |-> [i \in 1..Len(r.results) |->
                                    [product_id |-> r.results[i].product_id,
                                     success |-> r.results[i].result.success]]]
        /\ UNCHANGED <<side_vars, now, companies, products, report_vars>>

(* The weekly maintenance task cleanup_old_data. *)
CleanupOldData ==
    /\ data_points' = cleanup_old_data(data_points, now)
    /\ UNCHANGED <<side_vars, now, companies, products, next_dp_id, saves, report_vars, last>>

(* The price rows of a product inside the window [t - days, t]. *)
PriceWindow(product_id, days) ==
    {dp \in data_points : /\ dp.product_id = product_id
                          /\ dp.metric_type = "price"
                          /\ dp.collected_at >= now - days
                          /\ dp.collected_at <= now}

(* get_price_trends(product_id, days): the store is only read. *)
PriceTrends(p, days) ==
    /\ last' = [op |-> "get_price_trends", product_id |-> p, days |-> days,
                at |-> now, raised |-> FALSE,
                window |-> PriceWindow(p, days),
                result |-> get_price_trends(data_points, p, days, now)]
    /\ UNCHANGED <<side_vars, now, store_vars, report_vars>>

(* sentiment_analysis(product_id, days). *)
SentimentAnalysis(p, days) ==
    /\ \E r \in {sentiment_analysis(data_points, p, days, now)} :
          last' = [op |-> "sentiment_analysis", product_id |-> p, days |-> days,
                   at |-> now, raised |-> r.raised, result |-> r]
    /\ UNCHANGED <<side_vars, now, store_vars, report_vars>>

(* competitor_analysis(company_id). *)
CompetitorAnalysis(c) ==
    /\ \E r \in {competitor_analysis(companies, products, data_points, c)} :
          last' = [op |-> "competitor_analysis", company_id |-> c,
                   at |-> now, raised |-> r.raised, result |-> r]
    /\ UNCHANGED <<side_vars, now, store_vars, report_vars>>

(* product_performance_summary(product_id). *)
PerformanceSummary(p) ==
    /\ \E r \in {product_performance_summary(products, data_points, p, now)} :
          last' = [op |-> "product_performance_summary", product_id |-> p,
                   at |-> now, raised |-> r.raised, result |-> r]
    /\ UNCHANGED <<side_vars, now, store_vars, report_vars>>

AnyReportId == 1..(MaxReports + 1)

NoAudit == [written |-> None, attempt |-> "none"]

Without(f, id) == [i \in (DOMAIN f) \ {id} |-> f[i]]

(* POST /reports: a pending row and one queued generation run. *)
CreateReport(report_type, client_id) ==
    /\ next_report_id <= MaxReports
    /\ QueueLen(tasks) < MaxTasks
    /\ reports' = reports @@ (next_report_id :>
                     pending_report(next_report_id, "Report", report_type, client_id))
    /\ audit' = audit @@ (next_report_id :> NoAudit)
    /\ tasks' = Enqueue(tasks, next_report_id)
    /\ next_report_id' = next_report_id + 1
    /\ UNCHANGED <<side_vars, now, store_vars, running, last>>

(* POST /reports/generate: the same for the current user. *)
GenerateReport(report_type) ==
    /\ next_report_id <= MaxReports
    /\ QueueLen(tasks) < MaxTasks
    /\ reports' = reports @@ (next_report_id :>
                     pending_report(next_report_id, "Report", report_type,
                                    Some(CurrentUserId)))
    /\ audit' = audit @@ (next_report_id :> NoAudit)
    /\ tasks' = Enqueue(tasks, next_report_id)
    /\ next_report_id' = next_report_id + 1
    /\ UNCHANGED <<side_vars, now, store_vars, running, last>>

(* A queued generation run starts: the row, if still pending, goes to
   processing; a run whose row is gone or not pending is dropped. *)
StartGeneration(id) ==
        /\ id \in DOMAIN tasks
        /\ tasks' = Dequeue(tasks, id)
        /\ IF id \in DOMAIN reports /\ reports[id].status = "pending"
           THEN /\ reports' = [reports EXCEPT ![id].status = "processing"]
                /\ running' = running \cup {id}
           ELSE UNCHANGED <<reports, running>>
        /\ UNCHANGED <<side_vars, now, store_vars, next_report_id, audit, last>>

(* By the failure cases of the report builder, the attempt on this row cannot
   succeed: unknown company, or a competitor report for a company nobody
   competes against. *)
MustFail(report) ==
    \/ report.client_id = None
    \/ report.client_id[1] \notin DOMAIN companies
    \/ /\ report.report_type = "competitor"
       /\ ~\E c \in DOMAIN companies : companies[c].competitor_to = report.client_id

(* A generation run ends.  A run whose row was deleted or reset meanwhile is
   discarded. *)
FinishGeneration(id) ==
    /\ id \in running
    /\ running' = running \ {id}
    /\ IF id \in DOMAIN reports /\ reports[id].status = "processing"
       THEN LET content == generation_content(companies, products, data_points,
                                              reports[id], now)
            IN  /\ reports' = [reports EXCEPT ![id] = finish_generation(@, content, now)]
                /\ audit' = [audit EXCEPT ![id] =
                                [written |-> reports'[id].content,
                                 attempt |-> IF MustFail(reports[id]) THEN "must_fail"
                                             ELSE "other"]]
       ELSE UNCHANGED <<reports, audit>>
    /\ UNCHANGED <<side_vars, now, store_vars, next_report_id, tasks, last>>

(* PUT /reports/{id} *)
UpdateReport(id, update_data) ==
    /\ IF id \in DOMAIN reports
       THEN reports' = [reports EXCEPT ![id] = update_report(@, update_data)]
       ELSE UNCHANGED reports
    /\ UNCHANGED <<side_vars, now, store_vars, next_report_id, tasks, running, audit, last>>

(* DELETE /reports/{id} *)
DeleteReport(id) ==
    /\ IF id \in DOMAIN reports
       THEN /\ reports' = Without(reports, id)
            /\ audit' = Without(audit, id)
       ELSE UNCHANGED <<reports, audit>>
    /\ UNCHANGED <<side_vars, now, store_vars, next_report_id, tasks, running, last>>

(* POST /reports/{id}/regenerate *)
RegenerateReport(id) ==
    /\ IF id \in DOMAIN reports
       THEN /\ QueueLen(tasks) < MaxTasks
            /\ reports' = [reports EXCEPT ![id] = regenerate_report(@)]
            /\ audit' = [audit EXCEPT ![id] = NoAudit]
            /\ tasks' = Enqueue(tasks, id)
       ELSE UNCHANGED <<reports, audit, tasks>>
    /\ last' = [op |-> "regenerate_report", id |-> id, found |-> id \in DOMAIN reports,
                before |-> IF id \in DOMAIN reports THEN reports[id].status ELSE ""]
    /\ UNCHANGED <<side_vars, now, store_vars, next_report_id, running>>

(* A call of one of the service's generators for a company; the row it adds,
   if any, is inserted under the next id.  existing: the rows the caller
   already holds for the period of the call. *)
ServiceCall(name, kind, c, r, existing) ==
    /\ r.added # None => next_report_id <= MaxReports
    /\ IF r.added # None
       THEN /\ reports' = reports @@ (next_report_id :> r.added[1])
            /\ audit' = audit @@ (next_report_id :>
                             [written |-> r.added[1].content, attempt |-> "other"])
            /\ next_report_id' = next_report_id + 1
       ELSE UNCHANGED <<reports, audit, next_report_id>>
    /\ last' = [op |-> name, company_id |-> c, day |-> now,
                raised |-> r.raised, ret |-> r.ret,
                created |-> r.added # None, existing |-> existing,
                same_period |-> Cardinality(
                    {id \in DOMAIN reports' :
                        /\ reports'[id].report_type = kind
                        /\ reports'[id].client_id = Some(c)
                        /\ reports'[id].generated_at = Some(now)})]

(* The daily report an earlier call of the same day returned for the company,
   if that row is still stored. *)
ReturnedToday(c) ==
    IF /\ last.op = "generate_daily_report" /\ last.company_id = c
       /\ ~last.raised /\ last.day = now /\ last.ret \in DOMAIN reports
    THEN {last.ret} ELSE {}

(* The weekly reports stored for the company and the calendar week of today. *)
WeeklyOfThisWeek(c) ==
    {id \in DOMAIN reports : /\ reports[id].report_type = "weekly"
                             /\ reports[id].client_id = Some(c)
                             /\ reports[id].generated_at # None
                             /\ reports[id].generated_at[1] \div 7 = now \div 7}

GenerateDaily(c) ==
    \E r \in {generate_daily_report(companies, products, data_points, reports, c,
                                   next_report_id, now)} :
        /\ ServiceCall("generate_daily_report", "daily", c, r, ReturnedToday(c))
        /\ UNCHANGED <<side_vars, now, store_vars, tasks, running>>

GenerateWeekly(c) ==
    \E r \in {generate_weekly_report(companies, products, data_points, reports, c,
                                    next_report_id, now)} :
        /\ ServiceCall("generate_weekly_report", "weekly", c, r, WeeklyOfThisWeek(c))
        /\ UNCHANGED <<side_vars, now, store_vars, tasks, running>>

GenerateCompetitor(c) ==
    \E r \in {generate_competitor_report(companies, products, data_points, reports, c,
                                        next_report_id, now)} :
        /\ ServiceCall("generate_competitor_report", "competitor", c, r, {})
        /\ UNCHANGED <<side_vars, now, store_vars, tasks, running>>

----------------------------------------------------------------------------
(* Specifications. *)

FetchChoices == [ProductIds -> FetchOutcomes]

(* The dispatcher on every product table: scrapes and (de)activations. *)
ScrapeInit == Init /\ companies[3].competitor_to = None

ScrapeNext ==
    \/ \E p \in ProductIds, b \in BOOLEAN : SetActive(p, b)
    \/ \E p \in AnyProductId, fetch \in FetchOutcomes : ScrapeProduct(p, fetch)
    \/ \E fetches \in FetchChoices : ScrapeAll(fetches)

ScrapeSpec == ScrapeInit /\ [][ScrapeNext]_vars

(* The report life cycle, over a store of two shop products whose pages are
   fetched and priced. *)

ShopInit ==
    /\ Init
    /\ companies[3].competitor_to = Some(1)
    /\ \A p \in ProductIds :
          products[p].url = Some(ShopHost) /\ products[p].tracking_config = None

(* Companies asked for: one with competitors, one without, an unknown one. *)
ClientChoices == {1, 3, 4}

LifecycleNext ==
    \/ \E ty \in {"daily", "competitor"}, c \in ClientChoices : CreateReport(ty, Some(c))
    \/ \E ty \in {"weekly", "competitor"} : GenerateReport(ty)
    \/ \E id \in DOMAIN tasks : StartGeneration(id)
    \/ \E id \in running : FinishGeneration(id)
    \/ \E id \in AnyReportId, u \in ReportUpdateChoices : UpdateReport(id, u)
    \/ \E id \in AnyReportId : DeleteReport(id)
    \/ \E id \in AnyReportId : RegenerateReport(id)
    \/ \E c \in ClientChoices : GenerateDaily(c)
    \/ \E c \in ClientChoices : GenerateWeekly(c)
    \/ \E c \in ClientChoices : GenerateCompetitor(c)
    \/ ScrapeProduct(2, Some(ShopPage))

LifecycleSpec == ShopInit /\ [][LifecycleNext]_vars

(* Reports of company 1 as snapshots of a store that grows, ages and is
   purged. *)
SnapshotNext ==
    \/ CreateReport("daily", Some(1))
    \/ \E id \in DOMAIN tasks : StartGeneration(id)
    \/ \E id \in running : FinishGeneration(id)
    \/ GenerateDaily(1)
    \/ GenerateWeekly(1)
    \/ GenerateCompetitor(1)
    \/ \E p \in ProductIds : ScrapeProduct(p, Some(ShopPage))
    \/ Tick
    \/ Jump
    \/ CleanupOldData

SnapshotSpec == ShopInit /\ [][SnapshotNext]_vars

(* The save applied to what an extractor may hand over: a dictionary of one
   or two items whose values are plain numbers, plain text, None, or nested
   dictionaries with or without the value and text_value keys. *)
FragmentValues ==
    {Num(5), Str("x"), PyNone,
     Dict([value |-> Num(5), text_value |-> Str("x")]),
     Dict([value |-> Num(5)]),
     Dict([text_value |-> Str("x")]),
     Dict([metadata |-> Str("m")])}

ExtractorOutputs ==
    { << <<"price", v>> >> : v \in FragmentValues }
        \cup { << <<"price", v>>, <<"sentiment", w>> >> : v, w \in FragmentValues }

(* _save_scraped_data(product, scraped_data, source) on product p: the rows
   are added and committed. *)
SaveScraped(p, scraped_data) ==
    /\ saves < MaxSaves
    /\ \E new \in {save_scraped_data(products[p].id, scraped_data,
                                     determine_scraper_type(products[p]),
                                     next_dp_id, now)} :
        /\ data_points' = data_points \cup new
        /\ next_dp_id' = next_dp_id + Len(scraped_data)
        /\ saves' = saves + 1
        /\ last' = [op |-> "save_scraped_data", product_id |-> p,
                    fragments |-> scraped_data, new |-> new]
    /\ UNCHANGED <<side_vars, now, companies, products, report_vars>>

SaveNext == \E scraped_data \in ExtractorOutputs : SaveScraped(1, scraped_data)

SaveSpec == ShopInit /\ [][SaveNext]_vars

(* Every kind of operation on one store: single and bulk scrapes, the
   queries, a report generation, the clock and the purge. *)
StoreNext ==
    \/ \E p \in ProductIds : ScrapeProduct(p, Some(ShopPage))
    \/ ScrapeAll([p \in ProductIds |-> Some(ShopPage)])
    \/ \E p \in ProductIds : PriceTrends(p, SummaryPriceDays)
    \/ SentimentAnalysis(1, SummarySentimentDays)
    \/ CompetitorAnalysis(1)
    \/ PerformanceSummary(1)
    \/ GenerateDaily(1)
    \/ Tick
    \/ Jump
    \/ CleanupOldData

StoreSpec == ShopInit /\ [][StoreNext]_vars

(* The queries over a store of priced observations: product 1 is scraped
   at changing prices, among them none and zero, product 2 (of a competitor
   of company 1) at one price. *)
DayChoices == {1, SummaryPriceDays}

AnalyticsNext ==
    \/ \E text \in DOMAIN PriceTable : ScrapeProduct(1, Some(PricePage(text)))
    \/ ScrapeProduct(1, Some(EmptyPage))
    \/ ScrapeProduct(2, Some(ShopPage))
    \/ Tick
    \/ \E p \in AnyProductId, days \in DayChoices : PriceTrends(p, days)
    \/ \E p \in AnyProductId : SentimentAnalysis(p, SummarySentimentDays)
    \/ \E c \in ClientChoices : CompetitorAnalysis(c)
    \/ \E p \in AnyProductId : PerformanceSummary(p)

AnalyticsSpec == ShopInit /\ [][AnalyticsNext]_vars

(* The store after product 1 was scraped once a day on each of the k days
   before day 0, the shop page fetched each time. *)
RECURSIVE SeededStore(_, _)
SeededStore(prods, k) ==
    IF k = 0 THEN {}
    ELSE LET earlier == SeededStore(prods, k - 1)
         IN  earlier \cup scrape_product_data(prods, 1, Some(ShopPage),
                                              Cardinality(earlier) + 1, 0 - k).new

(* Price queries over a history of up to HistoryLength daily scrapes that is
   then extended. *)
HistoryInit ==
    /\ now = 0
    /\ companies \in CompanyTables /\ companies[3].competitor_to = Some(1)
    /\ products \in ProductTables
    /\ \A p \in ProductIds :
          products[p].url = Some(ShopHost) /\ products[p].tracking_config = None
    /\ \E k \in 0..HistoryLength : data_points = SeededStore(products, k)
    /\ next_dp_id = Cardinality(data_points) + 1
    /\ saves = 0
    /\ reports = <<>> /\ next_report_id = 1 /\ tasks = <<>> /\ running = {}
    /\ audit = <<>>
    /\ last = [op |-> "init"]
    /\ cache = <<>> /\ hashseed = <<>> /\ jobs = <<>>
    /\ limiter = <<>> /\ inflight = <<>>

HistoryNext ==
    \/ \E text \in {"$0", "$105"} : ScrapeProduct(1, Some(PricePage(text)))
    \/ Tick
    \/ \E days \in DayChoices : PriceTrends(1, days)

HistorySpec == HistoryInit /\ [][HistoryNext]_vars

----------------------------------------------------------------------------
(* Properties of report generation (LifecycleSpec). *)

(* C1: two calls of generate_daily_report for one company on one day, the
   second after the first has returned, return the same report id, and the
   store then holds exactly one daily report of the company for the day.
   last.existing is the row the earlier call of the day returned. *)
C1_DailyIdempotent ==
    (last.op = "generate_daily_report" /\ ~last.raised /\ last.existing # {})
        => /\ last.ret \in last.existing
           /\ ~last.created
           /\ last.same_period = 1

(* The allowed status changes of a stored row. *)
StatusEdges ==
    {<<"pending", "processing">>, <<"processing", "completed">>, <<"processing", "failed">>}

(* C2: every row is created pending, and the status of a row only moves
   pending -> processing -> completed | failed, apart from the reset to
   pending of a regeneration; no row is completed without having been
   pending and processing. *)
C2_StatusTransitions ==
    [][ /\ \A id \in (DOMAIN reports') \ (DOMAIN reports) :
              reports'[id].status = "pending"
        /\ \A id \in (DOMAIN reports') \cap (DOMAIN reports) :
              \/ reports'[id].status = reports[id].status
              \/ <<reports[id].status, reports'[id].status>> \in StatusEdges
              \/ /\ reports'[id].status = "pending"
                 /\ last'.op = "regenerate_report" /\ last'.id = id
                 /\ Queued(tasks', id) = Queued(tasks, id) + 1 ]_vars

(* C3: a completed report has content and a generation time; a failed report
   has neither. *)
C3_TerminalFields ==
    \A id \in DOMAIN reports :
        /\ reports[id].status = "completed"
              => reports[id].content # None /\ reports[id].generated_at # None
        /\ reports[id].status = "failed"
              => reports[id].content = None /\ reports[id].generated_at = None

(* A completed report that was renamed after its generation, next to a
   failed one. *)
C3_Witness ==
    \E a, b \in DOMAIN reports :
        /\ reports[a].status = "completed" /\ reports[a].title = "Renamed"
        /\ reports[b].status = "failed"

(* C4: a report whose generation attempt cannot succeed (unknown company, or
   a competitor report for a company without competitors) is failed and has
   no content: not completed, not left pending or processing. *)
C4_FailedAttempt ==
    \A id \in DOMAIN reports :
        audit[id].attempt = "must_fail"
            => /\ reports[id].status = "failed"
               /\ reports[id].content = None
               /\ reports[id].generated_at = None

(* Both failure cases have run: a competitor report of a company without
   competitors, and a report of an unknown company. *)
C4_Witness ==
    \E a, b \in DOMAIN reports :
        /\ audit[a].attempt = "must_fail" /\ reports[a].report_type = "competitor"
        /\ reports[a].client_id # None /\ reports[a].client_id[1] \in DOMAIN companies
        /\ audit[b].attempt = "must_fail" /\ reports[b].client_id # None
        /\ reports[b].client_id[1] \notin DOMAIN companies

(* C5: generate_weekly_report for a company that holds a weekly report of the
   current calendar week returns that report and adds no row.
   last.existing is the set of those reports when the call started. *)
C5_WeeklyIdempotent ==
    (last.op = "generate_weekly_report" /\ ~last.raised /\ last.existing # {})
        => /\ ~last.created
           /\ last.ret \in last.existing

(* C6: regenerating a stored report sets it to pending with neither content
   nor generation time, queues exactly one generation run for its id and
   leaves every other report and run alone; regenerating an unknown id is
   answered not-found and changes no report and no run. *)
C6_Regenerate ==
    [][ \A id \in AnyReportId :
          RegenerateReport(id) =>
             IF id \in DOMAIN reports
             THEN /\ last'.found
                  /\ DOMAIN reports' = DOMAIN reports
                  /\ reports'[id].status = "pending"
                  /\ reports'[id].content = None
                  /\ reports'[id].generated_at = None
                  /\ Queued(tasks', id) = Queued(tasks, id) + 1
                  /\ \A o \in AnyReportId \ {id} : Queued(tasks', o) = Queued(tasks, o)
                  /\ \A o \in (DOMAIN reports) \ {id} : reports'[o] = reports[o]
             ELSE /\ ~last'.found
                  /\ reports' = reports
                  /\ tasks' = tasks ]_vars

(* A completed report has been regenerated, its run is queued, and another
   report is stored. *)
C6_Witness ==
    /\ last.op = "regenerate_report" /\ last.found /\ last.before = "completed"
    /\ last.id \in DOMAIN reports /\ reports[last.id].status = "pending"
    /\ Queued(tasks, last.id) = 1
    /\ Cardinality(DOMAIN reports) > 1

----------------------------------------------------------------------------
(* Reports as snapshots (SnapshotSpec). *)

(* C7: the content read from a completed report is the content written at
   its generation, whatever was scraped or purged since. *)
C7_Snapshot ==
    \A id \in DOMAIN reports :
        reports[id].status = "completed"
            => report_detail(products, data_points, reports[id], now) = audit[id].written

(* A completed daily report that counted price data, all of whose rows have
   since been purged, while rows were scraped after its generation. *)
C7_Witness ==
    \E id \in DOMAIN reports :
        /\ reports[id].status = "completed" /\ reports[id].report_type = "daily"
        /\ audit[id].written # None
        /\ audit[id].written[1].total_data_points > 0
        /\ \A dp \in data_points : dp.created_at > reports[id].generated_at[1]
        /\ data_points # {}

----------------------------------------------------------------------------
(* Properties of the dispatcher (ScrapeSpec). *)

(* C8: the bulk scrape attempts every active product with a URL exactly once,
   whichever of the scrapes fail; successful_scrapes + failed_scrapes =
   total_products = the number of result entries, and successful_scrapes is
   the number of entries whose scrape returned success. *)
C8_BulkPartition ==
    last.op = "scrape_all_active_products"
        => /\ last.successful_scrapes + last.failed_scrapes = last.total_products
           /\ last.total_products = Len(last.results)
           /\ \A p \in last.expected :
                 Cardinality({i \in 1..Len(last.results) : last.results[i].product_id = p}) = 1
           /\ \A i \in 1..Len(last.results) : last.results[i].product_id \in last.expected
           /\ last.successful_scrapes =
                 Cardinality({i \in 1..Len(last.results) : last.results[i].success})

(* A bulk scrape over two products whose first scrape failed and whose
   second succeeded. *)
C8_Witness ==
    /\ last.op = "scrape_all_active_products"
    /\ Len(last.results) = 2
    /\ ~last.results[1].success /\ last.results[2].success

(* The product, as the caller saw it before the scrape, cannot be scraped:
   it does not exist, is inactive or has no URL. *)
NotScrapable(before) ==
    \/ ~before.exists
    \/ ~before.is_active
    \/ before.url = None
    \/ before.url[1] = <<>>

(* C9: scrape_product_data on a product that does not exist, is inactive or
   has no URL returns an error, calls no extractor, fetches nothing and
   leaves the stored observations as they were. *)
C9_NotScrapable ==
    (last.op = "scrape_product_data" /\ NotScrapable(last.before))
        => /\ ~last.success /\ last.error # ""
           /\ ~last.extractor /\ ~last.fetched
           /\ last.added = 0 /\ last.removed = 0

(* An inactive product with a shop URL was asked for while observations are
   stored. *)
C9_Witness ==
    /\ last.op = "scrape_product_data"
    /\ last.before.exists /\ ~last.before.is_active
    /\ last.before.url = Some(ShopHost)
    /\ data_points # {}

(* No family takes the URL of the product: the family resolved for it is not
   registered, or no registered family accepts the URL. *)
NoFamilyAccepts(before) ==
    \/ determine_scraper_type(before) \notin RegisteredFamilies
    \/ \A f \in RegisteredFamilies : ~family_validate_url(f, before.url[1])

(* C10: scrape_product_data on an active product with a URL returns an
   unsupported-source error, fetches nothing and writes no observation when
   no family accepts the URL, the family being resolved by the default
   fallback or named by scraper_type without being registered included. *)
C10_UnsupportedSource ==
    (/\ last.op = "scrape_product_data"
     /\ ~NotScrapable(last.before)
     /\ NoFamilyAccepts(last.before))
        => /\ ~last.success
           /\ last.error \in {"No scraper available for type",
                              "Scraping failed: Unsupported URL"}
           /\ ~last.fetched
           /\ last.added = 0

(* The default fallback resolved the shop family for a URL of no known host,
   and the family refused it. *)
C10_Witness ==
    /\ last.op = "scrape_product_data"
    /\ ~NotScrapable(last.before)
    /\ last.before.url = Some(OtherHost)
    /\ last.before.tracking_config = None
    /\ last.extractor
    /\ last.error = "Scraping failed: Unsupported URL"

(* C11: the family resolved for a product is the scraper_type of its tracking
   configuration when set, else the family of the table domain that is a
   suffix of the host of its URL, else ecommerce; a table domain elsewhere
   in the host selects nothing. *)
C11_FamilyResolution ==
    LET HasSuffix(domain, host) ==
            /\ Len(host) >= Len(domain)
            /\ SubSeq(host, Len(host) - Len(domain) + 1, Len(host)) = domain
        AnySuffix(table, host) ==
            \E i \in 1..Len(table) : HasSuffix(table[i], host)
        SuffixFamily(before) ==
            IF /\ before.tracking_config # None
               /\ before.tracking_config[1].scraper_type # None
            THEN before.tracking_config[1].scraper_type[1]
            ELSE LET host == Lower(Netloc(before.url[1]))
                 IN  IF AnySuffix(ecommerce_domains, host) THEN "ecommerce"
                     ELSE IF AnySuffix(social_domains, host) THEN "social"
                     ELSE IF AnySuffix(news_domains, host) THEN "news"
                     ELSE "ecommerce"
    IN  (last.op = "scrape_product_data" /\ ~NotScrapable(last.before))
            => last.scraper_type = SuffixFamily(last.before)

(* C12: after a successful scrape_product_data the number of rows added
   equals the number of fragments the extractor returned and the reported
   data_points_saved; every added row carries the product's id and the one
   time of the save as collection time, and the row of a fragment that
   supplies no source of its own carries the resolved family as source. *)
C12_SavedFragments ==
    (last.op = "scrape_product_data" /\ last.success) =>
        /\ Cardinality(last.new) = Len(last.fragments)
        /\ last.data_points_saved = Len(last.fragments)
        /\ \A dp \in last.new :
            /\ dp.product_id = last.product_id
            /\ dp.collected_at = last.at
        /\ \A i \in 1..Len(last.fragments) :
            LET data == last.fragments[i][2]
            IN  (data.t = "dict" => "source" \notin DOMAIN data.d) =>
                    \E dp \in last.new :
                        /\ dp.metric_type = last.fragments[i][1]
                        /\ dp.source = last.scraper_type

(* A successful scrape that saved several fragments, one of them null. *)
C12_Witness ==
    /\ last.op = "scrape_product_data" /\ last.success
    /\ Len(last.fragments) >= 2
    /\ \E i \in 1..Len(last.fragments) : last.fragments[i][2] = PyNone
    /\ last.new \subseteq data_points

----------------------------------------------------------------------------
(* Properties of the stored rows (SaveSpec). *)

(* C13: every stored data point has a numeric value or a text value, whatever
   the extractor returned. *)
C13_ValuePresent ==
    \A dp \in data_points : dp.value # None \/ dp.text_value # None

----------------------------------------------------------------------------
(* Properties of the observation store (StoreSpec). *)

(* C14 as stated: the store is append-only; no operation changes or removes
   a stored data point. *)
C14_AppendOnly == [][data_points \subseteq data_points']_vars

(* C14: no operation changes a field of a stored data point, and a step
   that removes any removes exactly the rows created more than
   RetentionDays before it (the purge of cleanup_old_data) and adds none;
   every other step only adds rows. *)
C14_AppendOrPurge ==
    [][ /\ \A dp \in data_points : \A e \in data_points' : e.id = dp.id => e = dp
        /\ \/ data_points \subseteq data_points'
           \/ data_points' = {dp \in data_points : dp.created_at >= now - RetentionDays}
      ]_vars

(* Rows have been purged, and the store holds a row that has aged. *)
C14_Witness ==
    /\ \E id \in 1..(next_dp_id - 1) : \A dp \in data_points : dp.id # id
    /\ \E dp \in data_points : dp.created_at < now

----------------------------------------------------------------------------
(* Properties of the queries (AnalyticsSpec). *)

(* C15: each of get_price_trends, sentiment_analysis, competitor_analysis
   and product_performance_summary returns a result or an error record and
   never raises. *)
C15_NeverRaises ==
    last.op \in {"get_price_trends", "sentiment_analysis", "competitor_analysis",
                 "product_performance_summary"}
        => ~last.raised

(* C16: with two or more price observations in the window, collected at
   different times, none of them null and the first not zero, the trend is increasing iff the change from
   the first to the last is above +5 percent, decreasing iff it is below -5
   percent, and stable otherwise (exactly +5 or -5 percent included). *)
C16_TrendDirection ==
    (/\ last.op = "get_price_trends"
     /\ Cardinality(last.window) >= 2
     /\ \A dp \in last.window : dp.value # None
     /\ \A a, b \in last.window : a.collected_at = b.collected_at => a = b) =>
        LET rows == OrderByCollectedAt(last.window)
            first == rows[1].value[1]
            latest == rows[Len(rows)].value[1]
        IN  first > 0 =>
              /\ ~last.result.error
              /\ last.result.trend =
                    IF (latest - first) * 100 > TrendThreshold * first THEN "increasing"
                    ELSE IF (latest - first) * 100 < (0 - TrendThreshold) * first
                    THEN "decreasing"
                    ELSE "stable"

(* C17: with price observations in the window, collected at different
   times and none of them null, current_price is the value of the observation collected last, and
   average_price, min_price and max_price are the mean, the least and the
   greatest of all values of the window, a latest value of 0 included. *)
C17_CurrentAndAggregates ==
    (/\ last.op = "get_price_trends"
     /\ last.window # {}
     /\ \A dp \in last.window : dp.value # None
     /\ \A a, b \in last.window : a.collected_at = b.collected_at => a = b) =>
        LET rows == OrderByCollectedAt(last.window)
            values == [i \in 1..Len(rows) |-> rows[i].value[1]]
            res == last.result
        IN  /\ ~res.error
            /\ res.current_price = values[Len(values)]
            /\ res.min_price = SeqMin(values)
            /\ res.max_price = SeqMax(values)
            /\ res.average_price.sum * Len(values) = SumSeq(values) * res.average_price.n
            /\ res.min_price <= res.current_price /\ res.current_price <= res.max_price

(* C19: a price-trend query whose window holds exactly one price
   observation returns the trend stable and a price change of 0 percent. *)
C19_SingleObservation ==
    (last.op = "get_price_trends" /\ Cardinality(last.window) = 1) =>
        /\ ~last.result.error
        /\ last.result.trend = "stable"
        /\ last.result.price_change_percent.num = 0

(* A query whose window holds one positive price of a product that has an
   older price observation outside the window. *)
C19_Witness ==
    /\ last.op = "get_price_trends"
    /\ Cardinality(last.window) = 1
    /\ \A dp \in last.window : Truthy(dp.value)
    /\ ~last.result.error /\ last.result.current_price > 0
    /\ \E dp \in data_points :
          /\ dp.product_id = last.product_id /\ dp.metric_type = "price"
          /\ dp.collected_at < last.at - last.days

----------------------------------------------------------------------------
(* Properties of the price history (HistorySpec). *)

(* C18 as stated: every price observation of the window is returned in
   price_history with its value, source and collection time, however many
   observations the window holds: each such triple occurs in the history as
   often as in the window. *)
C18_RoundTrip ==
    last.op = "get_price_trends" =>
        \A dp \in last.window :
            LET same(e) == /\ e.value = dp.value /\ e.source = dp.source
                           /\ e.collected_at = dp.collected_at
                h == IF last.result.error THEN <<>> ELSE last.result.price_history
            IN  Cardinality({i \in 1..Len(h) :
                                /\ h[i].price = dp.value /\ h[i].source = dp.source
                                /\ h[i].date = IsoFormat(dp.collected_at)})
                    >= Cardinality({e \in last.window : same(e)})

(* C18: price_history is the HistoryLength price observations of the window
   collected last (all of them when the window holds no more), each with the
   value, source and collection time it was written with; data_points
   counts every observation of the window. *)
C18_RoundTripLastTen ==
    (last.op = "get_price_trends" /\ last.window # {}) =>
        LET rows == OrderByCollectedAt(last.window)
            n == Len(rows)
            h == last.result.price_history
        IN  /\ ~last.result.error
            /\ last.result.data_points = n
            /\ Len(h) = IF n <= HistoryLength THEN n ELSE HistoryLength
            /\ \A i \in 1..Len(h) :
                  /\ h[i].price = rows[n - Len(h) + i].value
                  /\ h[i].source = rows[n - Len(h) + i].source
                  /\ h[i].date = IsoFormat(rows[n - Len(h) + i].collected_at)

(* A query over a window of more than HistoryLength observations whose
   history returns an observation of value 0 and leaves out the oldest. *)
C18_Witness ==
    /\ last.op = "get_price_trends"
    /\ Cardinality(last.window) > HistoryLength
    /\ ~last.result.error
    /\ \E i \in 1..Len(last.result.price_history) :
          last.result.price_history[i].price = Some(0)
    /\ \E dp \in last.window :
          \A i \in 1..Len(last.result.price_history) :
              last.result.price_history[i].date # IsoFormat(dp.collected_at)

----------------------------------------------------------------------------
(* Properties of the competitor analysis (AnalyticsSpec). *)

(* C20: competitor_analysis of a company reports one entry for each company
   whose competitor_to is that company and no other entry; for a company
   without competitors and for an unknown id it returns an error record. *)
C20_CompetitorEntries ==
    last.op = "competitor_analysis" =>
        LET c == last.company_id
            rivals == {x \in DOMAIN companies : companies[x].competitor_to = Some(c)}
            res == last.result
        IN  /\ ~last.raised
            /\ IF c \notin DOMAIN companies \/ rivals = {}
               THEN res.error
               ELSE /\ ~res.error
                    /\ Len(res.competitors) = Cardinality(rivals)
                    /\ {res.competitors[i].id : i \in 1..Len(res.competitors)} = rivals

----------------------------------------------------------------------------
(* Fetcher (BaseScraper.fetch_page) over the Redis content cache. *)

(* BaseScraper._get_cache_key: the url, with the JSON text of the extra
   parameters when there are any, hashed by the built-in hash of the
   process, which depends on the seed the process was started with. *)
get_cache_key(seed, url, params) ==
    [hash |-> <<seed, IF params # None THEN url \o params[1] ELSE url>>]

(* The cache lookup that never finds anything. *)
get_cached_content_skipped(c, key, read_ok) == None

(* BaseScraper._get_cached_content: the content of the entry of the key; None
   when there is no entry or the read fails (the error is logged).  An entry
   that Redis still holds is younger than its time to live of an hour, so
   the age test of the code passes. *)
get_cached_content(c, key, read_ok) ==
    IF read_ok /\ key \in DOMAIN c THEN Some(c[key].content) ELSE None

(* The retrieval that tries a second time after a failure. *)
retrieve_with_retry(use_selenium, params, outcome) ==
    IF outcome = "ok"
    THEN [raised |-> FALSE, content |-> Some("<html>"), requests |-> 1]
    ELSE [raised |-> FALSE, content |-> None, requests |-> 2]

(* _fetch_with_requests and _fetch_with_selenium for an outcome of the
   retrieval: the page text (empty for an empty body), None for the errors they
   catch, or an exception they let through; requests counts the network requests issued.  With
   requests, extra parameters are passed on to session.get, which refuses
   wait_for with a TypeError before any request.  The browser driver fails
   to start before any request; its exception is caught when it is a
   WebDriverException and passes through otherwise. *)
retrieve(use_selenium, params, outcome) ==
    IF ~use_selenium
    THEN IF params # None
         THEN [raised |-> TRUE, content |-> None, requests |-> 0]
         ELSE IF outcome = "ok"
         THEN [raised |-> FALSE, content |-> Some("<html>"), requests |-> 1]
         ELSE IF outcome = "ok_empty"
         THEN [raised |-> FALSE, content |-> Some(""), requests |-> 1]
         ELSE [raised |-> FALSE, content |-> None, requests |-> 1]
    ELSE IF outcome = "driver_failure"
         THEN [raised |-> FALSE, content |-> None, requests |-> 0]
         ELSE IF outcome = "driver_failure_other"
         THEN [raised |-> TRUE, content |-> None, requests |-> 0]
         ELSE IF outcome = "ok"
         THEN [raised |-> FALSE, content |-> Some("<html>"), requests |-> 1]
         ELSE IF outcome = "ok_empty"
         THEN [raised |-> FALSE, content |-> Some(""), requests |-> 1]
         ELSE [raised |-> FALSE, content |-> None, requests |-> 1]

(* The caching test that ignores whether content was obtained. *)
should_cache_any(content, use_cache) == use_cache

(* `if content and use_cache` of fetch_page. *)
should_cache(content, use_cache) ==
    content # None /\ content[1] # "" /\ use_cache

(* BaseScraper.fetch_page on the cache c: the value returned, whether an
   exception left the call, the cache afterwards, and the sequence of what
   the call did: "get" (cache read), "sleep" (_rate_limit), "request"
   (network request), "setex" (cache write, lost when the write fails). *)
fetch_page(c, seed, use_selenium, url, params, use_cache, read_ok, outcome, write_ok) ==
    LET cache_key == get_cache_key(seed, url, params)
        cached_content == IF use_cache THEN get_cached_content(c, cache_key, read_ok)
                          ELSE None
        looked == IF use_cache THEN <<"get">> ELSE <<>>
        r == retrieve(use_selenium, params, outcome)
        sent == [i \in 1..r.requests |-> "request"]
    IN  IF cached_content # None /\ cached_content[1] # ""
        THEN [result |-> cached_content, raised |-> FALSE, cache |-> c,
              events |-> looked, key |-> cache_key]
        ELSE IF r.raised
        THEN [result |-> None, raised |-> FALSE, cache |-> c,
              events |-> looked \o <<"sleep">> \o sent, key |-> cache_key]
        ELSE IF should_cache(r.content, use_cache)
        THEN [result |-> r.content, raised |-> FALSE,
              cache |-> IF write_ok
                        THEN [k \in DOMAIN c \cup {cache_key} |->
                                 IF k = cache_key
                                 THEN [content |-> IF r.content = None THEN ""
                                                   ELSE r.content[1],
                                       url |-> url, params |-> params]
                                 ELSE c[k]]
                        ELSE c,
              events |-> looked \o <<"sleep">> \o sent \o <<"setex">>,
              key |-> cache_key]
        ELSE [result |-> r.content, raised |-> FALSE, cache |-> c,
              events |-> looked \o <<"sleep">> \o sent, key |-> cache_key]

(* A worker process starts; its string hash is seeded at start-up
   (PYTHONHASHSEED unset: a fresh random seed for each process). *)
StartWorker(proc, seed) ==
    /\ proc \notin DOMAIN hashseed
    /\ hashseed' = (proc :> seed) @@ hashseed
    /\ UNCHANGED <<now, store_vars, report_vars, last, cache, jobs,
                   limiter, inflight>>

(* Redis drops a cache entry whose time to live (setex, an hour) ran out. *)
ExpireCache(key) ==
    /\ key \in DOMAIN cache
    /\ cache' = [k \in DOMAIN cache \ {key} |-> cache[k]]
    /\ UNCHANGED <<now, store_vars, report_vars, last, hashseed, jobs,
                   limiter, inflight>>

(* A scraper of worker process proc calls fetch_page. *)
FetchPage(proc, use_selenium, url, params, use_cache, read_ok, outcome, write_ok) ==
    /\ proc \in DOMAIN hashseed
    /\ \E r \in {fetch_page(cache, hashseed[proc], use_selenium, url, params,
                             use_cache, read_ok, outcome, write_ok)} :
          /\ cache' = r.cache
          /\ last' = [op |-> "fetch_page", proc |-> proc, url |-> url,
                      params |-> params, use_cache |-> use_cache,
                      read_ok |-> read_ok, write_ok |-> write_ok,
                      live |-> r.key \in DOMAIN cache, key |-> r.key,
                      use_selenium |-> use_selenium,
                      outcome |-> IF Len(r.events) > 1 THEN outcome ELSE "unused",
                      result |-> r.result, raised |-> r.raised,
                      events |-> r.events]
    /\ UNCHANGED <<now, store_vars, report_vars, hashseed, jobs,
                   limiter, inflight>>

(* Fetches of the scrapers of two worker processes over the shared cache. *)
FetchSpec ==
    ShopInit /\ [][\/ \E proc \in {1, 2}, seed \in {"s1", "s2"} : StartWorker(proc, seed)
                   \/ \E key \in DOMAIN cache : ExpireCache(key)
                   \/ \E proc \in {1, 2}, use_selenium, use_cache, read_ok, write_ok \in BOOLEAN,
                         params \in {None, Some("{\"wait_for\": \".price\"}")},
                         outcome \in {"ok", "ok_empty", "http_error", "connection_error",
                                      "timeout", "driver_failure", "driver_failure_other",
                                      "wait_timeout"} :
                         FetchPage(proc, use_selenium, "http://a", params, use_cache,
                                   read_ok, outcome, write_ok)]_vars

----------------------------------------------------------------------------
(* C21, as stated: a fetch with use_cache and a live cache entry for its key
   returns the cached content after the cache lookup alone, with no
   politeness delay and no network request; in every fetch the cache lookup
   (when use_cache) comes first and every network request directly follows
   the politeness delay. *)
C21_LiveEntryServed ==
    last.op = "fetch_page" =>
        /\ last.use_cache /\ last.live =>
              last.events = <<"get">> /\ last.result = Some("<html>")
        /\ \A i \in 1..Len(last.events) :
              /\ last.events[i] = "get" => i = 1 /\ last.use_cache
              /\ last.events[i] = "request" => i > 1 /\ last.events[i - 1] = "sleep"

(* C21: a fetch with use_cache and a live cache entry for its key whose cache
   read succeeds returns the cached content after the cache lookup alone,
   with no politeness delay and no network request; a fetch whose cache read
   fails goes on as after a miss; in every fetch the cache lookup (exactly
   when use_cache) comes first, a network request is issued only after a
   miss, a failed read or without use_cache, and every network request
   directly follows the politeness delay. *)
C21_CacheFirst ==
    last.op = "fetch_page" =>
        /\ last.use_cache /\ last.live /\ last.read_ok =>
              last.events = <<"get">> /\ last.result = Some("<html>")
        /\ last.use_cache <=> (last.events # <<>> /\ last.events[1] = "get")
        /\ \A i \in 1..Len(last.events) :
              /\ last.events[i] = "get" => i = 1
              /\ last.events[i] = "request" =>
                    /\ i > 1 /\ last.events[i - 1] = "sleep"
                    /\ ~(last.use_cache /\ last.live /\ last.read_ok)

(* A fetch served from a live entry that another fetch had cached. *)
C21_Witness ==
    /\ last.op = "fetch_page" /\ last.use_cache /\ last.live /\ last.read_ok
    /\ last.events = <<"get">>
    /\ last.result = Some("<html>")

(* C22, as stated: a fetch writes the cache entry of its key exactly when the
   call went to the network, obtained content, and had use_cache; then the
   entry of the key holds the content afterwards; a failed fetch, a cache
   hit and any fetch without use_cache leave every entry unchanged, and no
   fetch touches the entry of another key. *)
C22_CachedExactlyWhenFetched ==
    [][(hashseed' = hashseed /\ DOMAIN cache \subseteq DOMAIN cache') =>
          LET Did(e) == \E i \in 1..Len(last'.events) : last'.events[i] = e
              fetched == /\ Did("request")
                         /\ last'.result # None /\ last'.result[1] # ""
                         /\ last'.use_cache
          IN  /\ fetched => /\ last'.key \in DOMAIN cache'
                            /\ cache'[last'.key].content = last'.result[1]
              /\ ~fetched => cache' = cache
              /\ \A k \in DOMAIN cache : k # last'.key => cache'[k] = cache[k]
              /\ DOMAIN cache' \subseteq DOMAIN cache \cup {last'.key}]_vars

(* C22: a fetch attempts the write of the cache entry of its key exactly when
   the call went to the network, obtained non-empty content, and had
   use_cache; when that write succeeds the entry of the key holds the
   content afterwards and no other entry changes; a write that fails, a
   failed fetch, an empty page, a cache hit and any fetch without use_cache
   leave every entry unchanged. *)
C22_WriteFrame ==
    [][(hashseed' = hashseed /\ DOMAIN cache \subseteq DOMAIN cache') =>
          LET Did(e) == \E i \in 1..Len(last'.events) : last'.events[i] = e
              fetched == /\ Did("request")
                         /\ last'.result # None /\ last'.result[1] # ""
                         /\ last'.use_cache
          IN  /\ Did("setex") <=> fetched
              /\ (fetched /\ last'.write_ok) =>
                    /\ last'.key \in DOMAIN cache'
                    /\ cache'[last'.key].content = last'.result[1]
                    /\ \A k \in DOMAIN cache : k # last'.key => cache'[k] = cache[k]
                    /\ DOMAIN cache' = DOMAIN cache \cup {last'.key}
              /\ ~(fetched /\ last'.write_ok) => cache' = cache]_vars

(* A fetch that went to the network with use_cache, got the page and left it
   in the entry of its key, beside the entry of another key. *)
C22_Witness ==
    /\ last.op = "fetch_page" /\ last.use_cache /\ last.write_ok
    /\ ~last.live
    /\ last.events = <<"get", "sleep", "request", "setex">>
    /\ last.key \in DOMAIN cache /\ cache[last.key].content = "<html>"
    /\ DOMAIN cache # {last.key}

(* C23: a fetch returns the page text or None and lets no exception out,
   whatever the retrieval did: None after an HTTP error status, a connection
   error, a timeout, a failure of the browser driver to start (of either
   exception class), a selector wait timeout and a refused request
   parameter; the text after a retrieval that succeeded, with a failing
   cache read or write as well; and it issues at most one network request. *)
C23_ContentOrNone ==
    last.op = "fetch_page" =>
        /\ ~last.raised
        /\ last.result \in {None, Some("<html>"), Some("")}
        /\ Cardinality({i \in 1..Len(last.events) : last.events[i] = "request"}) <= 1
        /\ (last.outcome \notin {"unused", "ok", "ok_empty"}) => last.result = None
        /\ (last.outcome = "ok" /\ (last.use_selenium \/ last.params = None)) =>
              last.result = Some("<html>")
        /\ (~last.use_selenium /\ last.params # None /\ last.outcome # "unused") =>
              last.result = None

(* A fetch by the browser whose driver failed to start with an exception
   that _fetch_with_selenium does not catch, answered with None. *)
C23_Witness ==
    /\ last.op = "fetch_page" /\ last.use_selenium
    /\ last.outcome = "driver_failure_other"
    /\ ~last.read_ok
    /\ last.result = None /\ ~last.raised
    /\ last.events = <<"get", "sleep">>

(* C26: two fetches with the same url and the same extra parameters compute
   the same cache key whichever worker process runs them, so that content
   cached by one is a hit for the other: a fetch with use_cache whose cache
   read succeeds finds every live entry that was cached for its url and
   parameters and is served from it without a network request. *)
C26_SharedKey ==
    (last.op = "fetch_page" /\ last.use_cache /\ last.read_ok) =>
        \A k \in DOMAIN cache :
            (cache[k].url = last.url /\ cache[k].params = last.params) =>
                /\ k = last.key
                /\ last.live => last.events = <<"get">>

----------------------------------------------------------------------------
(* Worker units (scrape_product tasks of scraping_tasks.py). *)

MaxUnits == 1
MaxRetries == 3
RetryBase == 60

(* The retry that never gives up. *)
retry_forever(retries) ==
    [again |-> TRUE, countdown |-> RetryBase * 2^retries]

(* self.retry(exc=e, countdown=60 * (2 ** self.request.retries)) of a task
   with max_retries=3: the task is queued again after the countdown while
   its retries have not reached max_retries, otherwise the exception is
   raised and the task has failed. *)
retry(retries) ==
    [again |-> retries < MaxRetries, countdown |-> RetryBase * 2^retries]

(* scrape_product.delay(product_id): a unit is queued for a product id. *)
QueueUnit(p) ==
    /\ Len(jobs) < MaxUnits
    /\ jobs' = Append(jobs, [product_id |-> p, retries |-> 0, attempts |-> 0,
                             status |-> "queued", countdown |-> None])
    /\ UNCHANGED <<now, store_vars, report_vars, last, cache, hashseed,
                   limiter, inflight>>

(* A worker runs the queued unit u (scrape_product task).  A missing or
   inactive product ends the unit as skipped.  Otherwise the body runs the
   scrape of the product and the alert checks: it returns, or it raises
   before anything was persisted (the call of scraper_service.scrape_product,
   a method ScraperService does not define, is one such case), or it raises
   in the alert checks after the scrape has persisted its rows; an exception
   goes to retry.  The scrape is ScraperService.scrape_product_data. *)
RunUnit(u, outcome, fetch) ==
    /\ u \in DOMAIN jobs /\ jobs[u].status = "queued"
    /\ \E p \in {jobs[u].product_id} :
       \E skipped \in {p \notin DOMAIN products \/ ~products[p].is_active} :
       \E r \in {IF skipped \/ outcome = "raises_before"
                 THEN ErrorResult("", "", FALSE, FALSE)
                 ELSE scrape_product_data(products, p, fetch, next_dp_id, now)} :
       \E t \in {retry(jobs[u].retries)} :
       \E status \in {IF skipped THEN "skipped"
                      ELSE IF outcome = "returns" THEN "success"
                      ELSE IF t.again THEN "queued" ELSE "failed"} :
          /\ r.success => saves < MaxSaves
          /\ data_points' = data_points \cup r.new
          /\ next_dp_id' = next_dp_id + r.data_points_saved
          /\ saves' = IF r.success THEN saves + 1 ELSE saves
          /\ jobs' = [jobs EXCEPT ![u] =
                         [product_id |-> p,
                          retries |-> IF status = "queued" THEN @.retries + 1
                                      ELSE @.retries,
                          attempts |-> @.attempts + 1,
                          status |-> status,
                          countdown |-> IF status = "queued" THEN Some(t.countdown)
                                        ELSE @.countdown]]
          /\ last' = [op |-> "scrape_product_task", unit |-> u, product_id |-> p,
                      before |-> ProductState(p), status |-> status,
                      new |-> data_points' \ data_points]
    /\ UNCHANGED <<now, companies, products, report_vars, cache, hashseed,
                   limiter, inflight>>

(* Worker units beside the service's scrapes and the admin's activation and
   deactivation of products. *)
WorkerSpec ==
    ShopInit /\ [][\/ \E p \in AnyProductId : QueueUnit(p)
                   \/ \E u \in 1..MaxUnits,
                         outcome \in {"returns", "raises_before", "raises_after"} :
                         RunUnit(u, outcome, Some(ShopPage))
                   \/ \E p \in ProductIds, b \in BOOLEAN : SetActive(p, b)
                   \/ \E p \in AnyProductId : ScrapeProduct(p, Some(ShopPage))
                   \/ ScrapeAll([p \in ProductIds |-> Some(ShopPage)])]_vars

(* The same with the job layer running every queued unit in the end: a
   worker takes each queued task, and each retry once its countdown is over. *)
WorkerFairSpec ==
    /\ WorkerSpec
    /\ \A u \in 1..MaxUnits :
          WF_vars(\E outcome \in {"returns", "raises_before", "raises_after"} :
                     RunUnit(u, outcome, Some(ShopPage)))

(* C24: a worker unit is retried at most 3 times, which makes at most 4
   attempts; the retry after the n-th failed attempt (n = 0, 1, 2) is
   delayed by 60 * 2^n seconds; a unit that has ended as success, skipped or
   failed stays so, a skipped unit was attempted once more than it had been
   retried and is not queued again; and every queued unit ends as success,
   skipped or failed. *)
C24_BoundedRetries ==
    /\ [](\A u \in DOMAIN jobs :
             /\ jobs[u].retries <= 3 /\ jobs[u].attempts <= 4
             /\ jobs[u].status = "queued" =>
                   /\ jobs[u].attempts = jobs[u].retries
                   /\ jobs[u].retries > 0 =>
                         jobs[u].countdown = Some(60 * 2^(jobs[u].retries - 1))
             /\ jobs[u].status # "queued" =>
                   jobs[u].attempts = jobs[u].retries + 1
             /\ jobs[u].status = "failed" => jobs[u].attempts = 4)
    /\ [][\A u \in DOMAIN jobs :
             jobs[u].status # "queued" => jobs'[u] = jobs[u]]_vars
    /\ \A u \in 1..MaxUnits :
          (u \in DOMAIN jobs) ~>
             (u \in DOMAIN jobs /\ jobs[u].status \in {"success", "skipped", "failed"})

(* A unit that failed four times, the last retry delayed by 240 seconds, and
   was given up. *)
C24_Witness ==
    \E u \in DOMAIN jobs :
        /\ jobs[u].status = "failed" /\ jobs[u].attempts = 4
        /\ jobs[u].retries = 3 /\ jobs[u].countdown = Some(240)

(* C25: a step taken while a product's active flag is false (a scrape of the
   product, the bulk scrape, or the run of a worker unit queued for it
   earlier) adds no observation of that product, and no step of a scrape,
   a worker unit or a deactivation removes or changes an observation. *)
C25_InactiveNotScraped ==
    [][/\ data_points \subseteq data_points'
       /\ \A p \in DOMAIN products :
             ~products[p].is_active =>
                 \A d \in data_points' \ data_points : d.product_id # p]_vars

(* A worker unit for product 1 run while the product is deactivated: it
   ended as skipped, and the observations the product had are in the store. *)
C25_Witness ==
    /\ last.op = "scrape_product_task" /\ last.product_id = 1
    /\ last.status = "skipped" /\ last.new = {}
    /\ last.before.exists /\ ~last.before.is_active
    /\ ~products[1].is_active
    /\ \E d \in data_points : d.product_id = 1

----------------------------------------------------------------------------
(* Text normalisers of the extractors. *)

MaxArticles == 3

(* The availability parser that only looks for a text. *)
parse_availability_optimistic(text) == text # None /\ text[1] # <<>>

(* EcommerceScraper._parse_availability on the availability text of a page
   (None when the page has none). *)
parse_availability(text) ==
    LET out_of_stock_indicators ==
            {<<"o", "u", "t", " ", "o", "f", " ", "s", "t", "o", "c", "k">>,
             <<"u", "n", "a", "v", "a", "i", "l", "a", "b", "l", "e">>,
             <<"s", "o", "l", "d", " ", "o", "u", "t">>,
             <<"n", "o", "t", " ", "a", "v", "a", "i", "l", "a", "b", "l", "e">>,
             <<"d", "i", "s", "c", "o", "n", "t", "i", "n", "u", "e", "d">>,
             <<"t", "e", "m", "p", "o", "r", "a", "r", "i", "l", "y", " ", "o", "u", "t">>,
             <<"c", "u", "r", "r", "e", "n", "t", "l", "y", " ", "u", "n", "a", "v", "a", "i", "l", "a", "b", "l", "e">>}
        in_stock_indicators ==
            {<<"i", "n", " ", "s", "t", "o", "c", "k">>,
             <<"a", "v", "a", "i", "l", "a", "b", "l", "e">>,
             <<"s", "h", "i", "p", "s">>,
             <<"d", "e", "l", "i", "v", "e", "r", "y">>,
             <<"a", "d", "d", " ", "t", "o", " ", "c", "a", "r", "t">>,
             <<"b", "u", "y", " ", "n", "o", "w">>}
    IN  IF text = None \/ text[1] = <<>>
        THEN FALSE
        ELSE LET t == Lower(text[1])
             IN  IF \E indicator \in out_of_stock_indicators : Contains(indicator, t)
                 THEN FALSE
                 ELSE IF \E indicator \in in_stock_indicators : Contains(indicator, t)
                 THEN TRUE
                 ELSE TRUE

(* The score that is the difference of the counts. *)
sentiment_score_difference(positive_count, negative_count) ==
    [num |-> positive_count - negative_count, den |-> 1]

(* The score of _calculate_basic_sentiment from its two counts, as the
   fraction num/den: 0.0 without sentiment words, otherwise the quotient
   clamped to [-1, 1]. *)
sentiment_score(positive_count, negative_count) ==
    LET total_sentiment_words == positive_count + negative_count
        num == positive_count - negative_count
    IN  IF total_sentiment_words = 0
        THEN [num |-> 0, den |-> 1]
        ELSE IF num > total_sentiment_words THEN [num |-> 1, den |-> 1]
        ELSE IF num < -total_sentiment_words THEN [num |-> -1, den |-> 1]
        ELSE [num |-> num, den |-> total_sentiment_words]

(* SocialScraper._calculate_basic_sentiment: the words of the lower-cased
   text (re.findall(r'\b\w+\b'): the maximal runs of word characters, the
   letters, digits and underscore), the
   number of them in the positive and in the negative word list, and the
   score. *)
calculate_basic_sentiment(text) ==
    LET positive_words ==
            {<<"g", "o", "o", "d">>,
             <<"g", "r", "e", "a", "t">>,
             <<"e", "x", "c", "e", "l", "l", "e", "n", "t">>,
             <<"a", "m", "a", "z", "i", "n", "g">>,
             <<"a", "w", "e", "s", "o", "m", "e">>,
             <<"f", "a", "n", "t", "a", "s", "t", "i", "c">>,
             <<"l", "o", "v", "e">>,
             <<"l", "i", "k", "e">>,
             <<"b", "e", "s", "t">>,
             <<"p", "e", "r", "f", "e", "c", "t">>,
             <<"w", "o", "n", "d", "e", "r", "f", "u", "l">>,
             <<"o", "u", "t", "s", "t", "a", "n", "d", "i", "n", "g">>,
             <<"b", "r", "i", "l", "l", "i", "a", "n", "t">>,
             <<"s", "u", "p", "e", "r", "b">>,
             <<"i", "n", "c", "r", "e", "d", "i", "b", "l", "e">>,
             <<"p", "h", "e", "n", "o", "m", "e", "n", "a", "l">>}
        negative_words ==
            {<<"b", "a", "d">>,
             <<"t", "e", "r", "r", "i", "b", "l", "e">>,
             <<"a", "w", "f", "u", "l">>,
             <<"h", "o", "r", "r", "i", "b", "l", "e">>,
             <<"h", "a", "t", "e">>,
             <<"w", "o", "r", "s", "t">>,
             <<"d", "i", "s", "a", "p", "p", "o", "i", "n", "t", "i", "n", "g">>,
             <<"u", "s", "e", "l", "e", "s", "s">>,
             <<"g", "a", "r", "b", "a", "g", "e">>,
             <<"t", "r", "a", "s", "h">>,
             <<"s", "u", "c", "k", "s">>,
             <<"p", "a", "t", "h", "e", "t", "i", "c">>,
             <<"d", "i", "s", "g", "u", "s", "t", "i", "n", "g">>,
             <<"a", "n", "n", "o", "y", "i", "n", "g">>,
             <<"f", "r", "u", "s", "t", "r", "a", "t", "i", "n", "g">>}
        IsWordChar(c) ==
            c \in {LowerChars[i] : i \in 1..Len(LowerChars)}
                  \cup {"0", "1", "2", "3", "4", "5", "6", "7", "8", "9", "_"}
        text_lower == Lower(text)
        starts == {i \in 1..Len(text_lower) :
                      /\ IsWordChar(text_lower[i])
                      /\ i = 1 \/ ~IsWordChar(text_lower[i - 1])}
        word(i) == SubSeq(text_lower, i,
                          CHOOSE j \in i..Len(text_lower) :
                              /\ \A k \in i..j : IsWordChar(text_lower[k])
                              /\ j = Len(text_lower) \/ ~IsWordChar(text_lower[j + 1]))
        positive_count == Cardinality({i \in starts : word(i) \in positive_words})
        negative_count == Cardinality({i \in starts : word(i) \in negative_words})
    IN  [positive_count |-> positive_count, negative_count |-> negative_count,
         score |-> sentiment_score(positive_count, negative_count)]

(* The deduplication that compares the titles as they are. *)
deduplicate_articles_exact(articles) ==
    SelectSeq([i \in 1..Len(articles) |-> [a |-> articles[i], i |-> i]],
              LAMBDA x : \A j \in 1..(x.i - 1) : articles[j].title # x.a.title)

(* NewsArticleScraper._deduplicate_articles: the articles whose normalised
   title (lower case, every character that is neither a word character nor
   white space removed, runs of white space joined to one blank, none at the
   ends) was not seen earlier in the list, in their order.  Each article is
   returned with its place in the input. *)
deduplicate_articles(articles) ==
    LET IsSpace(c) == c \in {" ", "\t"}
        IsWordChar(c) ==
            c \in {LowerChars[i] : i \in 1..Len(LowerChars)}
                  \cup {"0", "1", "2", "3", "4", "5", "6", "7", "8", "9", "_"}
        title_normalized(title) ==
            LET s == SelectSeq(Lower(title), LAMBDA c : IsWordChar(c) \/ IsSpace(c))
                kept == SelectSeq([i \in 1..Len(s) |-> i],
                                  LAMBDA i : \/ ~IsSpace(s[i])
                                             \/ /\ i > 1 /\ ~IsSpace(s[i - 1])
                                                /\ \E j \in (i + 1)..Len(s) : ~IsSpace(s[j]))
            IN  [k \in 1..Len(kept) |-> IF IsSpace(s[kept[k]]) THEN " " ELSE s[kept[k]]]
    IN  SelectSeq([i \in 1..Len(articles) |-> [a |-> articles[i], i |-> i]],
                  LAMBDA x : \A j \in 1..(x.i - 1) :
                      title_normalized(articles[j].title) # title_normalized(x.a.title))

(* The normalisers, each applied once to an availability text, a post text
   or a batch of articles. *)
TextSpec ==
    ShopInit /\ [][\/ \E a, b \in {<<>>,
                                   <<"I", "n", " ", "S", "t", "o", "c", "k">>,
                                   <<"O", "u", "t", " ", "o", "f", " ", "S", "t", "o", "c", "k">>,
                                   <<"U", "N", "A", "V", "A", "I", "L", "A", "B", "L", "E">>,
                                   <<"A", "v", "a", "i", "l", "a", "b", "l", "e">>,
                                   <<"S", "o", "l", "d", " ", "O", "u", "t">>,
                                   <<"s", "h", "i", "p", "s">>,
                                   <<"N", "o", "t", " ", "A", "v", "a", "i", "l", "a", "b", "l", "e">>,
                                   <<"T", "e", "m", "p", "o", "r", "a", "r", "i", "l", "y", " ", "o", "u", "t">>,
                                   <<"A", "d", "d", " ", "t", "o", " ", "C", "a", "r", "t">>,
                                   <<"h", "e", "l", "l", "o">>,
                                   <<"s", "o", "l", "d">>,
                                   <<" ">>} :
                      \E text \in {None, Some(a \o b)} :
                         /\ last.op = "init"
                         /\ last' = [op |-> "parse_availability", text |-> text,
                                     result |-> parse_availability(text)]
                         /\ UNCHANGED <<now, store_vars, report_vars, side_vars>>
                   \/ \E a, b, c \in {<<>>,
                                     <<"G", "r", "e", "a", "t">>,
                                     <<"b", "a", "d", "!">>,
                                     <<"G", "O", "O", "D", ",">>,
                                     <<"h", "a", "t", "e">>,
                                     <<"g", "o", "o", "d", "s">>,
                                     <<"n", "o", "t", "_", "b", "a", "d">>,
                                     <<"l", "o", "v", "e">>,
                                     <<"o", "k">>,
                                     <<"w", "o", "r", "s", "t", ".">>} :
                      \E text \in {a \o <<" ">> \o b \o <<" ">> \o c} :
                      \E r \in {calculate_basic_sentiment(text)} :
                         /\ last.op = "init"
                         /\ last' = [op |-> "calculate_basic_sentiment", text |-> text,
                                     positive_count |-> r.positive_count,
                                     negative_count |-> r.negative_count,
                                     result |-> r.score]
                         /\ UNCHANGED <<now, store_vars, report_vars, side_vars>>
                   \/ \E n \in 0..MaxArticles :
                      \E articles \in [1..n -> [title : {<<"A", "c", "m", "e", " ", "U", "p", "!">>,
                                                  <<"a", "c", "m", "e", " ", "u", "p">>,
                                                  <<"A", "C", "M", "E", " ", " ", "u", "p">>,
                                                  <<"A", "c", "m", "e", " ", "D", "o", "w", "n">>,
                                                  <<"a", "c", "m", "e", "u", "p">>,
                                                  <<"!">>},
                                                source : {"techcrunch", "reuters"}]] :
                         /\ last.op = "init"
                         /\ last' = [op |-> "deduplicate_articles", articles |-> articles,
                                     result |-> deduplicate_articles(articles)]
                         /\ UNCHANGED <<now, store_vars, report_vars, side_vars>>]_vars

----------------------------------------------------------------------------
(* C27: the availability parser answers false for a missing or empty text;
   for any other text it answers false exactly when the lower-cased text
   contains one of the out-of-stock phrases, whether or not it contains an
   in-stock phrase too (as 'unavailable' contains 'available'), and true in
   every remaining case. *)
C27_Availability ==
    last.op = "parse_availability" =>
        LET OutOfStock ==
                {<<"o", "u", "t", " ", "o", "f", " ", "s", "t", "o", "c", "k">>,
                 <<"u", "n", "a", "v", "a", "i", "l", "a", "b", "l", "e">>,
                 <<"s", "o", "l", "d", " ", "o", "u", "t">>,
                 <<"n", "o", "t", " ", "a", "v", "a", "i", "l", "a", "b", "l", "e">>,
                 <<"d", "i", "s", "c", "o", "n", "t", "i", "n", "u", "e", "d">>,
                 <<"t", "e", "m", "p", "o", "r", "a", "r", "i", "l", "y", " ", "o", "u", "t">>,
                 <<"c", "u", "r", "r", "e", "n", "t", "l", "y", " ", "u", "n", "a", "v", "a", "i", "l", "a", "b", "l", "e">>}
            t == Lower(last.text[1])
        IN  IF last.text = None \/ last.text[1] = <<>>
            THEN last.result = FALSE
            ELSE last.result = ~(\E phrase \in OutOfStock : Contains(phrase, t))

(* The text 'UNAVAILABLE', which holds the in-stock phrase 'available', was
   parsed as not available. *)
C27_Witness ==
    /\ last.op = "parse_availability"
    /\ last.text = Some(<<"U", "N", "A", "V", "A", "I", "L", "A", "B", "L", "E">>)
    /\ Contains(<<"a", "v", "a", "i", "l", "a", "b", "l", "e">>, Lower(last.text[1]))
    /\ last.result = FALSE

(* C28: with pos and neg the numbers of positive and negative words counted
   in the text, the sentiment score is 0 when pos + neg = 0 and otherwise
   exactly (pos - neg) / (pos + neg); so it is 1 when neg = 0 < pos, -1 when
   pos = 0 < neg, and always within [-1, 1]. *)
C28_SentimentScore ==
    last.op = "calculate_basic_sentiment" =>
        LET pos == last.positive_count
            neg == last.negative_count
            score == last.result
        IN  /\ score.den > 0
            /\ pos + neg = 0 => score.num = 0
            /\ pos + neg > 0 => score.num * (pos + neg) = (pos - neg) * score.den
            /\ (neg = 0 /\ pos > 0) => score.num = score.den
            /\ (pos = 0 /\ neg > 0) => score.num = -score.den
            /\ -score.den <= score.num /\ score.num <= score.den

(* The text 'Great bad! GOOD,': two positive words and one negative word
   counted whatever their case and punctuation, and the score 1/3. *)
C28_Witness ==
    /\ last.op = "calculate_basic_sentiment"
    /\ last.positive_count = 2 /\ last.negative_count = 1
    /\ last.result = [num |-> 1, den |-> 3]
    /\ Len(last.text) = 16

(* C29: the deduplication of a batch of articles returns a sub-sequence of
   the batch (articles of the batch, in their order) in which no two
   articles have the same normalised title (lower case, punctuation
   removed, white space collapsed), with, for every normalised title of the
   batch, the first article of the batch that has it; and deduplicating the
   result again changes nothing. *)
C29_Deduplicated ==
    last.op = "deduplicate_articles" =>
        LET Norm(title) ==
                LET low == Lower(title)
                    plain == SelectSeq(low, LAMBDA c : c \notin {"!", ",", ".", "-", "?"})
                    ix == SelectSeq([i \in 1..Len(plain) |-> i],
                                    LAMBDA i : \/ plain[i] # " "
                                               \/ /\ i > 1 /\ plain[i - 1] # " "
                                                  /\ \E j \in (i + 1)..Len(plain) :
                                                        plain[j] # " ")
                IN  [k \in 1..Len(ix) |-> plain[ix[k]]]
            in == last.articles
            out == last.result
            again == deduplicate_articles([k \in 1..Len(out) |-> out[k].a])
        IN  /\ \A k \in 1..Len(out) :
                  /\ out[k].i \in 1..Len(in) /\ in[out[k].i] = out[k].a
                  /\ k > 1 => out[k - 1].i < out[k].i
            /\ \A k, l \in 1..Len(out) :
                  k # l => Norm(out[k].a.title) # Norm(out[l].a.title)
            /\ \A i \in 1..Len(in) :
                  (\A j \in 1..(i - 1) : Norm(in[j].title) # Norm(in[i].title))
                     <=> (\E k \in 1..Len(out) : out[k].i = i)
            /\ [k \in 1..Len(again) |-> again[k].a] = [k \in 1..Len(out) |-> out[k].a]

(* A batch of three articles, 'Acme Down' between two articles whose titles
   differ in case, punctuation and spacing only: the first and the second
   are returned. *)
C29_Witness ==
    /\ last.op = "deduplicate_articles"
    /\ Len(last.articles) = 3 /\ Len(last.result) = 2
    /\ last.articles[1].title = <<"A", "c", "m", "e", " ", "U", "p", "!">>
    /\ last.articles[3].title = <<"A", "C", "M", "E", " ", " ", "u", "p">>
    /\ last.result[1].i = 1 /\ last.result[2].i = 2
    /\ last.result[2].a.title = <<"A", "c", "m", "e", " ", "D", "o", "w", "n">>

----------------------------------------------------------------------------
(* Rate limiter (RateLimiter.__call__ of dependencies.py), a synchronous
   dependency that the server runs in its thread pool: the requests of one
   client can be inside it at the same time, each with its own Redis
   commands. *)

MaxInflight == 2
max_requests == 2

(* A request of client c enters __call__ and reads the counter of the
   client (redis_client.get).  A Redis error lets the request through. *)
ReadCount(c, redis_ok) ==
    /\ Len(inflight) < MaxInflight
    /\ IF redis_ok
       THEN /\ inflight' = Append(inflight,
                              [client |-> c,
                               current_requests |->
                                   IF c \in DOMAIN limiter
                                   THEN Some(limiter[c].count) ELSE None])
            /\ last' = last
       ELSE /\ inflight' = inflight
            /\ last' = [op |-> "rate_limit", client |-> c, status |-> 200,
                        current_requests |-> None, redis_ok |-> FALSE,
                        counted |-> FALSE]
    /\ UNCHANGED <<now, store_vars, report_vars, cache, hashseed, jobs, limiter>>

(* The request at place i goes on from the value it has read: without a
   value it starts the window (setex key window_seconds 1); with a value of
   max_requests or more it is refused with 429; otherwise it increments the
   counter (incr, which creates a counter of 1 without expiry when the key
   has expired meanwhile).  A Redis error in the write lets the request
   through.  The entry of a client holds the counter, whether it expires,
   and the number of requests admitted on it since it was created. *)
Decide(i, redis_ok) ==
    /\ i \in DOMAIN inflight
    /\ \E c \in {inflight[i].client} :
       \E current_requests \in {inflight[i].current_requests} :
       \E refused \in {current_requests # None /\ current_requests[1] >= max_requests} :
       \E admitted \in {IF c \in DOMAIN limiter THEN limiter[c].admitted + 1 ELSE 1} :
          /\ limiter' =
                IF refused \/ ~redis_ok THEN limiter
                ELSE IF current_requests = None
                THEN (c :> [count |-> 1, expires |-> TRUE, admitted |-> admitted])
                        @@ limiter
                ELSE IF c \in DOMAIN limiter
                THEN [limiter EXCEPT ![c].count = @ + 1, ![c].admitted = admitted]
                ELSE (c :> [count |-> 1, expires |-> FALSE, admitted |-> admitted])
                        @@ limiter
          /\ last' = [op |-> "rate_limit", client |-> c,
                      status |-> IF refused THEN 429 ELSE 200,
                      current_requests |-> current_requests,
                      redis_ok |-> refused \/ redis_ok,
                      counted |-> ~refused /\ redis_ok]
    /\ inflight' = [k \in 1..(Len(inflight) - 1) |->
                       IF k < i THEN inflight[k] ELSE inflight[k + 1]]
    /\ UNCHANGED <<now, store_vars, report_vars, cache, hashseed, jobs>>

(* Redis drops the counter of a client when its window_seconds are over. *)
ExpireLimit(c) ==
    /\ c \in DOMAIN limiter /\ limiter[c].expires
    /\ limiter' = [k \in DOMAIN limiter \ {c} |-> limiter[k]]
    /\ UNCHANGED <<now, store_vars, report_vars, last, cache, hashseed, jobs,
                   inflight>>

(* Requests of two clients passing the rate limiter concurrently. *)
LimiterSpec ==
    ShopInit /\ [][\/ \E c \in {"10.0.0.1", "10.0.0.2"}, redis_ok \in BOOLEAN :
                         ReadCount(c, redis_ok)
                   \/ \E i \in 1..MaxInflight, redis_ok \in BOOLEAN : Decide(i, redis_ok)
                   \/ \E c \in {"10.0.0.1", "10.0.0.2"} : ExpireLimit(c)]_vars

(* C30: for each client address the limiter admits at most max_requests
   requests on one counter window, also when requests of the client are
   handled concurrently; and a request that finds the counter at
   max_requests or above is refused with 429 and leaves the counter as it
   is. *)
C30_WindowLimit ==
    /\ \A c \in DOMAIN limiter : limiter[c].admitted <= max_requests
    /\ (/\ last.op = "rate_limit"
        /\ last.current_requests # None
        /\ last.current_requests[1] >= max_requests)
          => last.status = 429 /\ ~last.counted

====
